---- MODULE Spec2Model ----
(***************************************************************************)
(* State-machine model of the MCP connection registry (MCPClientManager)   *)
(* of lib/mcp/client-manager: the map from server id to ManagedClient, the *)
(* asynchronous operations on it (each split at its await points), and the *)
(* calls the registry makes on the SDK client handles.                     *)
(* Also the browser-side configuration store (mcpStorage) of               *)
(* lib/mcp/storage: the localStorage item and its export and import.       *)
(***************************************************************************)
EXTENDS Integers, Sequences, FiniteSets, Bags, TLC

\* ------------------------------------------------------------------ bounds
MaxOps == 2          \* operations that can be in flight at once
MaxClients == 2      \* Client objects constructed during a run
MaxCalls == 3        \* registry calls made during a run
MaxTime == 2         \* largest value Date.now() returns (it starts at 1)
MaxStored == 2       \* entries addServer() lets the stored list grow to
MaxIds == 4          \* identities generateId() yields during a run
MaxTools == 12       \* tools the connected servers offer to one chat request
MaxParts == 2        \* parts of one generateContent response
MaxUiCalls == 2      \* connect / disconnect calls made on one page

\* ------------------------------------------------------- optional values
\* null / undefined is the empty sequence, a present value x is <<x>>.
None == <<>>
Some(x) == <<x>>

ServerIds == {"s1", "s2"}

\* --------------------------------------------------------- configurations
MkConfig(id, transportType, stdioConfig, httpConfig) ==
  [id |-> id, transportType |-> transportType,
   stdioConfig |-> stdioConfig, httpConfig |-> httpConfig]

StdioOk == Some([command |-> Some("npx")])
StdioNoCommand == Some([command |-> None])
HttpOk == Some([url |-> Some("http://localhost:3001/mcp")])
HttpNoUrl == Some([url |-> None])

\* every shape of configuration the transport selector distinguishes
AllConfigs ==
  { MkConfig("s1", "stdio", StdioOk, None),
    MkConfig("s1", "stdio", None, HttpOk),
    MkConfig("s1", "stdio", StdioNoCommand, None),
    MkConfig("s1", "streamable-http", None, HttpOk),
    MkConfig("s1", "streamable-http", StdioOk, None),
    MkConfig("s1", "streamable-http", None, HttpNoUrl),
    MkConfig("s1", "sse", None, HttpOk),
    MkConfig("s1", "sse", None, None),
    MkConfig("s1", "sse", None, HttpNoUrl),
    MkConfig("s1", "websocket", StdioOk, HttpOk) }

\* the configurations the concurrent callers use
Configs ==
  { MkConfig("s1", "sse", None, HttpOk),
    MkConfig("s1", "streamable-http", None, None),
    MkConfig("s2", "stdio", StdioOk, None) }

\* ------------------------------------------------------------ thrown values
MkError(message) == [isError |-> TRUE, message |-> message]
NonError == [isError |-> FALSE, message |-> ""]

\* what a failing SDK call can reject with
Thrown == { MkError("ECONNREFUSED"), NonError }

\* --------------------------------------------------------------- variables
VARIABLES
  clients,     \* MCPClientManager.clients : server id -> ManagedClient or None
  ops,         \* the bag of operations in flight, each stopped at an await
  handles,     \* per constructed Client: the calls the registry made on it
  nextClient,  \* the next Client object `new Client(...)` yields
  now,         \* the last value Date.now() returned
  last,        \* what the last step did: the call made, the value the awaited
               \* promise settled with, and the result if the call completed
  localStorage,\* the browser's item "mcp_servers": None or the stored text
  hasWindow,   \* whether the code runs in a browser (typeof window)
  nextId,      \* the next identity generateId() yields
  exportFile,  \* the last MCPExportData exportServers() returned, or None
  calls,       \* the number of registry calls made so far
  mcpTools,    \* chat route: the tools of the connected servers (line 122)
  gemini,      \* chat route: what convertToGeminiFunctions returned, or None
  chat,        \* chat route: the position of POST and its response stream
  ui           \* browser: the state of the MCPProvider component

storageVars == <<localStorage, hasWindow, nextId, exportFile>>
appVars == <<mcpTools, gemini, chat, ui>>
registryVars == <<clients, ops, handles, nextClient, calls>>
vars == <<clients, ops, handles, nextClient, now, last, storageVars, calls,
          appVars>>

\* the value an awaited promise settled with
Env(kind, ok, error, value) ==
  [kind |-> kind, ok |-> ok, error |-> error, value |-> value]

NoEnv == Env("none", TRUE, NonError, None)

Ev(op, arg, called, done, outcome, ret, env) ==
  [op |-> op, arg |-> arg, called |-> called, done |-> done,
   outcome |-> outcome, ret |-> ret, env |-> env]

NoEvent == Ev("none", None, FALSE, FALSE, "none", None, NoEnv)

InFlight == BagToSet(ops)
CanStart == BagCardinality(ops) < MaxOps
Started(op) == ops (+) SetToBag({op})
Finished(op) == ops (-) SetToBag({op})
Replaced(op, new) == (ops (-) SetToBag({op})) (+) SetToBag({new})

\* ------------------------------------------------------------ status values
ConnectedStatus(serverId, time) ==
  [serverId |-> serverId, status |-> "connected",
   error |-> None, lastConnected |-> Some(time)]

ErrorMessage(error) == IF error.isError THEN error.message ELSE "Unknown error"

ErrorStatus(serverId, error) ==
  [serverId |-> serverId, status |-> "error",
   error |-> Some(ErrorMessage(error)), lastConnected |-> None]

DisconnectedStatus(serverId) ==
  [serverId |-> serverId, status |-> "disconnected",
   error |-> None, lastConnected |-> None]

\* no chat request is being served and no page is open
IdleChat ==
  [pc |-> "idle", response |-> "none", parts |-> <<>>, finalText |-> "",
   toolCalls |-> <<>>, toolCallInfo |-> <<>>, current |-> 0,
   stream |-> <<>>, closed |-> FALSE]
IdleUi ==
  [pc |-> "idle", servers |-> <<>>, queue |-> <<>>,
   statuses |-> [id \in ServerIds |-> None],
   capabilities |-> [id \in ServerIds |-> None],
   requests |-> EmptyBag, isLoading |-> TRUE, calls |-> 0]
NoApp ==
  /\ mcpTools = <<>>
  /\ gemini = None
  /\ chat = IdleChat
  /\ ui = IdleUi

\* the registry runs in the server process: no window, no localStorage
NoStorage ==
  /\ localStorage = None
  /\ hasWindow = FALSE
  /\ nextId = 1
  /\ exportFile = None

\* ------------------------------------------------------- transport selector
NewURL(url) ==
  IF url = None
    THEN [threw |-> TRUE, error |-> MkError("Invalid URL"), value |-> None]
    ELSE [threw |-> FALSE, error |-> NonError, value |-> url]

TransportThrow(message) ==
  [threw |-> TRUE, error |-> MkError(message), transport |-> None]

TransportOk(kind, target) ==
  [threw |-> FALSE, error |-> NonError,
   transport |-> Some([kind |-> kind, target |-> target])]

\* variant: an unrecognised kind falls through to the SSE transport
createTransportDefaultSse(config) ==
  CASE config.transportType = "stdio" ->
         IF config.stdioConfig = None
           THEN TransportThrow("STDIO config is required for STDIO transport")
           ELSE TransportOk("stdio", config.stdioConfig[1].command)
    [] config.transportType = "streamable-http" ->
         IF config.httpConfig = None
           THEN TransportThrow("HTTP config is required for Streamable HTTP transport")
           ELSE LET u == NewURL(config.httpConfig[1].url) IN
                IF u.threw THEN [threw |-> TRUE, error |-> u.error, transport |-> None]
                ELSE TransportOk("streamable-http", u.value)
    [] config.transportType = "sse" ->
         IF config.httpConfig = None
           THEN TransportThrow("HTTP config is required for SSE transport")
           ELSE LET u == NewURL(config.httpConfig[1].url) IN
                IF u.threw THEN [threw |-> TRUE, error |-> u.error, transport |-> None]
                ELSE TransportOk("sse", u.value)
    [] OTHER ->
         IF config.httpConfig = None
           THEN TransportThrow("HTTP config is required for SSE transport")
           ELSE TransportOk("sse", config.httpConfig[1].url[1])

\* lines 340-379
createTransport(config) ==
  CASE config.transportType = "stdio" ->
         IF config.stdioConfig = None
           THEN TransportThrow("STDIO config is required for STDIO transport")
           ELSE TransportOk("stdio", config.stdioConfig[1].command)
    [] config.transportType = "streamable-http" ->
         IF config.httpConfig = None
           THEN TransportThrow("HTTP config is required for Streamable HTTP transport")
           ELSE LET u == NewURL(config.httpConfig[1].url) IN
                IF u.threw THEN [threw |-> TRUE, error |-> u.error, transport |-> None]
                ELSE TransportOk("streamable-http", u.value)
    [] config.transportType = "sse" ->
         IF config.httpConfig = None
           THEN TransportThrow("HTTP config is required for SSE transport")
           ELSE LET u == NewURL(config.httpConfig[1].url) IN
                IF u.threw THEN [threw |-> TRUE, error |-> u.error, transport |-> None]
                ELSE TransportOk("sse", u.value)
    [] OTHER ->
         TransportThrow("Unsupported transport type: " \o config.transportType)

Init ==
  /\ clients = [id \in ServerIds |-> None]
  /\ ops = EmptyBag
  /\ handles = [h \in 1..MaxClients |->
                 [name |-> "", connectCalls |-> 0, listCalls |-> 0,
                  closeCalls |-> 0]]
  /\ nextClient = 1
  /\ now = 1
  /\ last = NoEvent
  /\ calls = 0
  /\ NoApp
  /\ NoStorage

\* ------------------------------------------------------------------ connect
\* lines 166-169: the name given to `new Client`, `mcp-client-${config.id}`
ClientName(config) == "mcp-client-" \o config.id

\* variant: the guard tests for the status "connecting", which is never stored
AlreadyConnectedWrongStatus(existingClient) ==
  existingClient # None /\ existingClient[1].status.status = "connecting"

\* line 161: the guard of the early return
AlreadyConnected(existingClient) ==
  existingClient # None /\ existingClient[1].status.status = "connected"

\* variant: a record already connected when the call completes is kept
ConnectedRecordFirstWins(client, config, status, capabilities) ==
  IF clients[config.id] # None
     /\ clients[config.id][1].status.status = "connected"
    THEN clients[config.id][1]
    ELSE [client |-> client, config |-> config, status |-> status,
          capabilities |-> Some(capabilities)]

\* variant: the entries of the snapshot already stored are kept in front of
\* the ones just fetched
ConnectedRecordMergesSnapshot(client, config, status, capabilities) ==
  LET old == IF clients[config.id] # None
                /\ clients[config.id][1].capabilities # None
               THEN clients[config.id][1].capabilities[1]
               ELSE [tools |-> <<>>, prompts |-> <<>>, resources |-> <<>>] IN
  [client |-> client, config |-> config, status |-> status,
   capabilities |-> Some([tools |-> old.tools \o capabilities.tools,
                          prompts |-> old.prompts \o capabilities.prompts,
                          resources |-> old.resources \o capabilities.resources])]

\* lines 183-188: the record stored on success
ConnectedRecord(client, config, status, capabilities) ==
  [client |-> client, config |-> config, status |-> status,
   capabilities |-> Some(capabilities)]

\* lines 199-204: the record stored on failure
FailedRecord(config, status) ==
  [client |-> 0, config |-> config, status |-> status, capabilities |-> None]

\* variant: the catch block rethrows instead of storing a failed record
connectCatchRethrows(config, error) ==
  [outcome |-> "threw", ret |-> Some(error), store |-> None]

\* variant: the catch block returns the failure without storing a record
connectCatchNoStore(config, error) ==
  [outcome |-> "returned",
   ret |-> Some(ErrorStatus(config.id, error)),
   store |-> None]

\* lines 191-207: the catch block; what connect() does with a caught error
connectCatch(config, error) ==
  [outcome |-> "returned",
   ret |-> Some(ErrorStatus(config.id, error)),
   store |-> Some(FailedRecord(config, ErrorStatus(config.id, error)))]

\* line 172: connect() calls client.connect(transport) once
HandshakeAttempts == 1

\* the SDK's answer to client.connect(transport): a subprocess transport
\* without a command cannot be spawned; any other transport may succeed or fail
HandshakeOutcomes(transport) ==
  IF transport.kind = "stdio" /\ transport.target = None
    THEN { Env("handshake", FALSE,
               MkError("The \"file\" argument must be of type string"), None) }
    ELSE { Env("handshake", TRUE, NonError, None) }
         \cup { Env("handshake", FALSE, e, None) : e \in Thrown }

\* every outcome of a handshake
AllOutcomes ==
  { Env("handshake", TRUE, NonError, None),
    Env("handshake", FALSE,
        MkError("The \"file\" argument must be of type string"), None) }
  \cup { Env("handshake", FALSE, e, None) : e \in Thrown }

\* the outcomes the concurrent runs draw from
FewOutcomes == { Env("handshake", TRUE, NonError, None),
                 Env("handshake", FALSE, MkError("ECONNREFUSED"), None) }

\* ------------------------------------------------------ capability fetcher
ToolA == [name |-> "search", description |-> Some("web search"),
          inputSchema |-> "schemaA", annotations |-> "readOnly"]
ToolB == [name |-> "fetch", description |-> None,
          inputSchema |-> "schemaB", annotations |-> "none"]
PromptA == [name |-> "summarize", description |-> None,
            arguments |-> Some("topic"), title |-> "Summarize"]
ResourceA == [uri |-> "file:///a", name |-> "a", description |-> None,
              mimeType |-> Some("text/plain"), size |-> 10]

ToolLists == { <<ToolA>>, <<ToolB, ToolA>> }
PromptLists == { <<>>, <<PromptA>> }
ResourceLists == { <<ResourceA>> }

Fulfilled(value) == [status |-> "fulfilled", value |-> value]
Rejected == [status |-> "rejected", value |-> <<>>]

\* what Promise.allSettled can yield for the three list queries
SettledResults ==
  [tools : {Rejected} \cup { Fulfilled(l) : l \in ToolLists },
   prompts : {Rejected} \cup { Fulfilled(l) : l \in PromptLists },
   resources : {Rejected} \cup { Fulfilled(l) : l \in ResourceLists }]

\* the results the concurrent runs draw from
FewSettled ==
  { [tools |-> Fulfilled(<<ToolB, ToolA>>), prompts |-> Fulfilled(<<PromptA>>),
     resources |-> Fulfilled(<<ResourceA>>)],
    [tools |-> Fulfilled(<<ToolA>>), prompts |-> Rejected,
     resources |-> Rejected] }

MapSeq(Op(_), s) == [i \in 1..Len(s) |-> Op(s[i])]

MapTool(t) == [name |-> t.name, description |-> t.description,
               inputSchema |-> t.inputSchema]
MapPrompt(p) == [name |-> p.name, description |-> p.description,
                 arguments |-> p.arguments]
MapResource(r) == [uri |-> r.uri, name |-> r.name,
                   description |-> r.description, mimeType |-> r.mimeType]

\* variant: Promise.all instead of Promise.allSettled, one rejection rejects all
fetchCapabilitiesAll(settled) ==
  IF \E k \in {"tools", "prompts", "resources"} : settled[k].status = "rejected"
    THEN [threw |-> TRUE, error |-> MkError("Method not found"),
          value |-> [tools |-> <<>>, prompts |-> <<>>, resources |-> <<>>]]
    ELSE [threw |-> FALSE, error |-> NonError,
          value |-> [tools |-> MapSeq(MapTool, settled.tools.value),
                     prompts |-> MapSeq(MapPrompt, settled.prompts.value),
                     resources |-> MapSeq(MapResource, settled.resources.value)]]

fetchCapabilities(settled) ==
  [threw |-> FALSE, error |-> NonError,
   value |->
     [tools |-> IF settled.tools.status = "fulfilled"
                  THEN MapSeq(MapTool, settled.tools.value) ELSE <<>>,
      prompts |-> IF settled.prompts.status = "fulfilled"
                    THEN MapSeq(MapPrompt, settled.prompts.value) ELSE <<>>,
      resources |-> IF settled.resources.status = "fulfilled"
                      THEN MapSeq(MapResource, settled.resources.value) ELSE <<>>]]

\* the end of connect() through the catch block
connectFail(op, error, env) ==
  LET c == connectCatch(op.config, error) IN
  /\ clients' = IF c.store = None THEN clients
                ELSE [clients EXCEPT ![op.config.id] = c.store]
  /\ ops' = Finished(op)
  /\ last' = Ev("connect", op.config, FALSE, TRUE, c.outcome, c.ret, env)

\* variant: the call stores a record of status "connecting" before it waits
connectStoresConnecting(config) ==
  /\ calls < MaxCalls
  /\ CanStart
  /\ LET existingClient == clients[config.id] IN
     IF AlreadyConnected(existingClient)
       THEN /\ last' = Ev("connect", config, TRUE, TRUE, "returned",
                          Some(existingClient[1].status), NoEnv)
            /\ UNCHANGED <<clients, ops, handles, nextClient, now>>
       ELSE /\ nextClient \in DOMAIN handles
            /\ nextClient' = nextClient + 1
            /\ handles' = [handles EXCEPT ![nextClient].name = ClientName(config)]
            /\ ops' = Started([kind |-> "connect", pc |-> "transport",
                               config |-> config, client |-> nextClient,
                               transport |-> createTransport(config),
                               attempts |-> 0])
            /\ clients' = [clients EXCEPT ![config.id] =
                 Some([client |-> 0, config |-> config,
                       status |-> [serverId |-> config.id,
                                   status |-> "connecting",
                                   error |-> None, lastConnected |-> None],
                       capabilities |-> None])]
            /\ last' = Ev("connect", config, TRUE, FALSE, "pending", None, NoEnv)
            /\ UNCHANGED now
  /\ UNCHANGED storageVars
  /\ calls' = calls + 1
  /\ UNCHANGED appVars

\* lines 159-171: the call, up to `await this.createTransport(config)`
connect(config) ==
  /\ calls < MaxCalls
  /\ CanStart
  /\ LET existingClient == clients[config.id] IN
     IF AlreadyConnected(existingClient)
       THEN /\ last' = Ev("connect", config, TRUE, TRUE, "returned",
                          Some(existingClient[1].status), NoEnv)
            /\ UNCHANGED <<clients, ops, handles, nextClient, now>>
       ELSE /\ nextClient \in DOMAIN handles
            /\ nextClient' = nextClient + 1
            /\ handles' = [handles EXCEPT ![nextClient].name = ClientName(config)]
            /\ ops' = Started([kind |-> "connect", pc |-> "transport",
                               config |-> config, client |-> nextClient,
                               transport |-> createTransport(config),
                               attempts |-> 0])
            /\ last' = Ev("connect", config, TRUE, FALSE, "pending", None, NoEnv)
            /\ UNCHANGED <<clients, now>>
  /\ UNCHANGED storageVars
  /\ calls' = calls + 1
  /\ UNCHANGED appVars

\* lines 171-172: createTransport settled; `await client.connect(transport)`
connectResumeTransport(op) ==
  /\ op \in InFlight /\ op.kind = "connect" /\ op.pc = "transport"
  /\ LET env == Env("transport", ~op.transport.threw, op.transport.error, None) IN
     IF op.transport.threw
       THEN /\ connectFail(op, op.transport.error, env)
            /\ UNCHANGED <<handles, nextClient, now>>
       ELSE /\ handles' = [handles EXCEPT ![op.client].connectCalls = @ + 1]
            /\ ops' = Replaced(op, [op EXCEPT !.pc = "handshake", !.attempts = 1])
            /\ last' = Ev("connect", op.config, FALSE, FALSE, "pending", None, env)
            /\ UNCHANGED <<clients, nextClient, now>>
  /\ UNCHANGED storageVars
  /\ UNCHANGED calls
  /\ UNCHANGED appVars

\* lines 172-175: the handshake settled; fetchCapabilities issues its queries
connectResumeHandshake(op, h) ==
  /\ op \in InFlight /\ op.kind = "connect" /\ op.pc = "handshake"
  /\ h \in HandshakeOutcomes(op.transport.transport[1])
  /\ IF h.ok
       THEN /\ handles' = [handles EXCEPT ![op.client].listCalls = @ + 3]
            /\ ops' = Replaced(op, [op EXCEPT !.pc = "fetch"])
            /\ last' = Ev("connect", op.config, FALSE, FALSE, "pending", None, h)
            /\ UNCHANGED <<clients, nextClient, now>>
       ELSE IF op.attempts < HandshakeAttempts
         THEN /\ handles' = [handles EXCEPT ![op.client].connectCalls = @ + 1]
              /\ ops' = Replaced(op, [op EXCEPT !.attempts = @ + 1])
              /\ last' = Ev("connect", op.config, FALSE, FALSE, "pending", None, h)
              /\ UNCHANGED <<clients, nextClient, now>>
         ELSE /\ connectFail(op, h.error, h)
              /\ UNCHANGED <<handles, nextClient, now>>
  /\ UNCHANGED storageVars
  /\ UNCHANGED calls
  /\ UNCHANGED appVars

\* lines 175-190: the capability queries settled; store and return
connectResumeCapabilities(op, settled, time) ==
  /\ op \in InFlight /\ op.kind = "connect" /\ op.pc = "fetch"
  /\ time >= now
  /\ LET f == fetchCapabilities(settled)
         env == Env("capabilities", TRUE, NonError, Some(settled))
         connectedStatus == ConnectedStatus(op.config.id, time) IN
     IF f.threw
       THEN /\ connectFail(op, f.error, env)
            /\ UNCHANGED <<handles, nextClient, now>>
       ELSE /\ now' = time
            /\ clients' = [clients EXCEPT ![op.config.id] =
                 Some(ConnectedRecord(op.client, op.config, connectedStatus, f.value))]
            /\ ops' = Finished(op)
            /\ last' = Ev("connect", op.config, FALSE, TRUE, "returned",
                          Some(connectedStatus), env)
            /\ UNCHANGED <<handles, nextClient>>
  /\ UNCHANGED storageVars
  /\ UNCHANGED calls
  /\ UNCHANGED appVars

\* --------------------------------------------------------------- disconnect
\* variant: close() is called whenever a handle is present, whatever the status
NeedsCloseAnyStatus(managedClient) == managedClient.client # 0

\* line 223: whether disconnect() calls close() on the record's client
NeedsClose(managedClient) ==
  managedClient.client # 0 /\ managedClient.status.status = "connected"

\* variant: no catch around close()
CloseErrorRethrown(error) == FALSE

\* lines 226-228: the catch around close(); TRUE when the error is swallowed
CloseErrorSwallowed(error) == TRUE

\* variant: the handle is dropped but the status is not replaced
DisconnectedRecordKeepsStatus(managedClient, status) ==
  [managedClient EXCEPT !.client = 0, !.capabilities = None]

\* variant: the capability snapshot is not cleared
DisconnectedRecordKeepsCapabilities(managedClient, status) ==
  [managedClient EXCEPT !.status = status]

\* variant: the timestamp of the last connection survives the disconnect
DisconnectedRecordKeepsTimestamp(managedClient, status) ==
  [managedClient EXCEPT
     !.status = [status EXCEPT !.lastConnected =
                                 managedClient.status.lastConnected],
     !.capabilities = None]

\* lines 235-239: { ...managedClient, status, capabilities: null }
DisconnectedRecord(managedClient, status) ==
  [managedClient EXCEPT !.status = status, !.capabilities = None]

\* variant: a "disconnected" record is stored for the unknown id
UntrackedRecordStored(serverId) ==
  Some([client |-> 0, config |-> None, status |-> DisconnectedStatus(serverId),
        capabilities |-> None])

\* lines 215-220: what disconnect() leaves in the map for an id without record
UntrackedRecord(serverId) == None

\* variant: the record is deleted instead of rewritten
disconnectFinishDeletes(serverId, managedClient) ==
  [clients EXCEPT ![serverId] = None]

\* lines 230-241, run with the record read at line 214
disconnectFinish(serverId, managedClient) ==
  [clients EXCEPT ![serverId] =
     Some(DisconnectedRecord(managedClient, DisconnectedStatus(serverId)))]

\* what close() can settle with
CloseOutcomes == { Env("close", TRUE, NonError, None),
                   Env("close", FALSE, MkError("close failed"), None) }

\* lines 213-225: the call, up to `await managedClient.client.close()`
disconnect(serverId) ==
  /\ calls < MaxCalls
  /\ CanStart
  /\ LET managedClient == clients[serverId] IN
     IF managedClient = None
       THEN /\ clients' = [clients EXCEPT ![serverId] = UntrackedRecord(serverId)]
            /\ last' = Ev("disconnect", serverId, TRUE, TRUE, "returned",
                          Some(DisconnectedStatus(serverId)), NoEnv)
            /\ UNCHANGED <<ops, handles, nextClient, now>>
       ELSE IF NeedsClose(managedClient[1])
         THEN /\ handles' = [handles EXCEPT ![managedClient[1].client].closeCalls = @ + 1]
              /\ ops' = Started([kind |-> "disconnect", pc |-> "closing",
                                 serverId |-> serverId,
                                 managedClient |-> managedClient[1]])
              /\ last' = Ev("disconnect", serverId, TRUE, FALSE, "pending", None, NoEnv)
              /\ UNCHANGED <<clients, nextClient, now>>
         ELSE /\ clients' = disconnectFinish(serverId, managedClient[1])
              /\ last' = Ev("disconnect", serverId, TRUE, TRUE, "returned",
                            Some(DisconnectedStatus(serverId)), NoEnv)
              /\ UNCHANGED <<ops, handles, nextClient, now>>
  /\ UNCHANGED storageVars
  /\ calls' = calls + 1
  /\ UNCHANGED appVars

\* lines 224-241: close() settled
disconnectResumeClose(op, c) ==
  /\ op \in InFlight /\ op.kind = "disconnect" /\ op.pc = "closing"
  /\ ops' = Finished(op)
  /\ IF c.ok \/ CloseErrorSwallowed(c.error)
       THEN /\ clients' = disconnectFinish(op.serverId, op.managedClient)
            /\ last' = Ev("disconnect", op.serverId, FALSE, TRUE, "returned",
                          Some(DisconnectedStatus(op.serverId)), c)
       ELSE /\ clients' = clients
            /\ last' = Ev("disconnect", op.serverId, FALSE, TRUE, "threw",
                          Some(c.error), c)
  /\ UNCHANGED <<handles, nextClient, now>>
  /\ UNCHANGED storageVars
  /\ UNCHANGED calls
  /\ UNCHANGED appVars

\* ------------------------------------------------------------ disconnectAll
\* the settlement of Promise.all (line 334) once no close() is pending: it
\* follows in microtasks, before any other I/O completion can run
AllSettled(rejected) ==
  Ev("disconnectAll", None, FALSE, TRUE,
     IF rejected THEN "threw" ELSE "returned", None,
     Env("all", ~rejected, NonError, None))

\* variant: only the ids whose record is "connected" are disconnected
disconnectAllConnectedOnly ==
  /\ calls < MaxCalls
  /\ CanStart
  /\ LET serverIds == { id \in ServerIds : clients[id] # None }
         closing == { id \in serverIds : NeedsClose(clients[id][1]) } IN
     /\ clients' = clients
     /\ handles' = [h \in DOMAIN handles |->
          IF \E id \in closing : clients[id][1].client = h
            THEN [handles[h] EXCEPT !.closeCalls = @ + 1]
            ELSE handles[h]]
     /\ IF closing = {}
          THEN /\ ops' = ops
               /\ last' = [AllSettled(FALSE) EXCEPT !.called = TRUE]
          ELSE /\ ops' = Started([kind |-> "disconnectAll", pc |-> "waiting",
                        pending |-> closing, rejected |-> FALSE,
                        managedClient |-> [id \in closing |-> clients[id][1]],
                        connectsAtCall |-> { o.client : o \in
                           { x \in InFlight : x.kind = "connect" } },
                        nextClientAtCall |-> nextClient])
               /\ last' = Ev("disconnectAll", serverIds, TRUE, FALSE, "pending",
                             None, NoEnv)
  /\ UNCHANGED <<nextClient, now>>
  /\ UNCHANGED storageVars
  /\ calls' = calls + 1
  /\ UNCHANGED appVars

\* lines 332-334: every disconnect(id) runs up to its first await at once.
\* connectsAtCall and nextClientAtCall record, for the properties, the connects
\* in flight and the number of Clients constructed when the call was made.
disconnectAll ==
  /\ calls < MaxCalls
  /\ CanStart
  /\ LET serverIds == { id \in ServerIds : clients[id] # None }
         closing == { id \in serverIds : NeedsClose(clients[id][1]) } IN
     /\ clients' = [id \in ServerIds |->
          IF id \in serverIds \ closing
            THEN disconnectFinish(id, clients[id][1])[id]
            ELSE clients[id]]
     /\ handles' = [h \in DOMAIN handles |->
          IF \E id \in closing : clients[id][1].client = h
            THEN [handles[h] EXCEPT !.closeCalls = @ + 1]
            ELSE handles[h]]
     /\ IF closing = {}
          THEN /\ ops' = ops
               /\ last' = [AllSettled(FALSE) EXCEPT !.called = TRUE]
          ELSE /\ ops' = Started([kind |-> "disconnectAll", pc |-> "waiting",
                        pending |-> closing, rejected |-> FALSE,
                        managedClient |-> [id \in closing |-> clients[id][1]],
                        connectsAtCall |-> { o.client : o \in
                           { x \in InFlight : x.kind = "connect" } },
                        nextClientAtCall |-> nextClient])
               /\ last' = Ev("disconnectAll", serverIds, TRUE, FALSE, "pending",
                             None, NoEnv)
  /\ UNCHANGED <<nextClient, now>>
  /\ UNCHANGED storageVars
  /\ calls' = calls + 1
  /\ UNCHANGED appVars

\* one of the fanned-out disconnects: its close() settled (lines 224-241);
\* when it was the last one pending, Promise.all settles with it (line 334)
disconnectAllResumeClose(op, serverId, c) ==
  /\ op \in InFlight /\ op.kind = "disconnectAll"
  /\ serverId \in op.pending
  /\ LET swallowed == c.ok \/ CloseErrorSwallowed(c.error)
         rest == [op EXCEPT
                    !.pending = @ \ {serverId},
                    !.rejected = @ \/ ~swallowed,
                    !.managedClient = [id \in op.pending \ {serverId} |->
                                         op.managedClient[id]]] IN
     /\ ops' = IF rest.pending = {} THEN Finished(op) ELSE Replaced(op, rest)
     /\ clients' = IF swallowed
                     THEN disconnectFinish(serverId, op.managedClient[serverId])
                     ELSE clients
     /\ last' = IF rest.pending = {}
                  THEN AllSettled(rest.rejected)
                  ELSE Ev("disconnect", serverId, FALSE, TRUE,
                          IF swallowed THEN "returned" ELSE "threw",
                          IF swallowed THEN Some(DisconnectedStatus(serverId))
                          ELSE Some(c.error), c)
  /\ UNCHANGED <<handles, nextClient, now>>
  /\ UNCHANGED storageVars
  /\ UNCHANGED calls
  /\ UNCHANGED appVars

\* -------------------------------------------------------------- invocations
ToolNames == {"search"}
ToolArgs == {None, Some("{q:mcp}")}
FewToolArgs == {Some("{q:mcp}")}
PromptNames == {"summarize"}
PromptArgs == {None}
Uris == {"file:///a"}
Methods == {"callTool", "getPrompt", "readResource"}

\* variant: only the missing record is tested, not the status
NotConnectedOnlyUntracked(managedClient) == managedClient = None

\* lines 280, 301, 318: the precondition of the three invocation methods
NotConnected(managedClient) ==
  managedClient = None \/ managedClient[1].status.status # "connected"

\* lines 281, 302, 319
NotConnectedError(serverId) == MkError("Server " \o serverId \o " is not connected")

\* lines 284-287, 305-308, 322-324: the parameters handed to the client
callToolParams(toolName, args) ==
  [name |-> toolName, arguments |-> IF args = None THEN Some("{}") ELSE args]
getPromptParams(promptName, args) == [name |-> promptName, arguments |-> args]
readResourceParams(uri) == [uri |-> uri]

\* what a forwarded call can settle with
InvokeOutcomes == { Env("invoke", TRUE, NonError, Some("result")),
                    Env("invoke", FALSE, MkError("request timed out"), None) }

\* the common shape of callTool, getPrompt and readResource up to the await
invoke(method, serverId, request, params) ==
  /\ calls < MaxCalls
  /\ CanStart
  /\ LET managedClient == clients[serverId] IN
     IF NotConnected(managedClient)
       THEN /\ last' = Ev(method, request, TRUE, TRUE, "threw",
                          Some(NotConnectedError(serverId)), NoEnv)
            /\ UNCHANGED <<clients, ops, handles, nextClient, now>>
       ELSE IF managedClient[1].client = 0
         THEN /\ last' = Ev(method, request, TRUE, TRUE, "threw",
                            Some(MkError("Cannot read properties of null")), NoEnv)
              /\ UNCHANGED <<clients, ops, handles, nextClient, now>>
         ELSE /\ ops' = Started([kind |-> method, pc |-> "invoking",
                                 request |-> request,
                                 client |-> managedClient[1].client,
                                 forwarded |-> params])
              /\ last' = Ev(method, request, TRUE, FALSE, "pending", None, NoEnv)
              /\ UNCHANGED <<clients, handles, nextClient, now>>
  /\ UNCHANGED storageVars
  /\ calls' = calls + 1
  /\ UNCHANGED appVars

\* lines 274-290
callTool(serverId, toolName, args) ==
  invoke("callTool", serverId,
         [serverId |-> serverId, name |-> toolName, args |-> args],
         callToolParams(toolName, args))

\* lines 295-311
getPrompt(serverId, promptName, args) ==
  invoke("getPrompt", serverId,
         [serverId |-> serverId, name |-> promptName, args |-> args],
         getPromptParams(promptName, args))

\* lines 316-327
readResource(serverId, uri) ==
  invoke("readResource", serverId,
         [serverId |-> serverId, uri |-> uri],
         readResourceParams(uri))

\* variant: a failed call is caught, the record is marked failed and the error
\* status is returned
invokeResumeMarksError(op, r) ==
  /\ op \in InFlight /\ op.kind \in Methods
  /\ ops' = Finished(op)
  /\ last' = Ev(op.kind, op.request, FALSE, TRUE, "returned",
                IF r.ok THEN r.value
                ELSE Some(ErrorStatus(op.request.serverId, r.error)), r)
  /\ clients' = IF r.ok \/ clients[op.request.serverId] = None THEN clients
                ELSE [clients EXCEPT ![op.request.serverId] =
                        Some([@[1] EXCEPT !.status =
                                ErrorStatus(op.request.serverId, r.error)])]
  /\ UNCHANGED <<handles, nextClient, now>>
  /\ UNCHANGED storageVars
  /\ UNCHANGED calls
  /\ UNCHANGED appVars

\* the forwarded call settled: its result is returned, its failure rethrown
invokeResume(op, r) ==
  /\ op \in InFlight /\ op.kind \in Methods
  /\ ops' = Finished(op)
  /\ last' = Ev(op.kind, op.request, FALSE, TRUE,
                IF r.ok THEN "returned" ELSE "threw",
                IF r.ok THEN r.value ELSE Some(r.error), r)
  /\ UNCHANGED <<clients, handles, nextClient, now>>
  /\ UNCHANGED storageVars
  /\ UNCHANGED calls
  /\ UNCHANGED appVars

\* -------------------------------------------------------------- pure lookups
\* variant: an unknown id is reported as failed
getStatusUnknownError(serverId) ==
  IF clients[serverId] # None THEN clients[serverId][1].status
  ELSE [serverId |-> serverId, status |-> "error",
        error |-> Some("Unknown server"), lastConnected |-> None]

\* lines 247-255
getStatus(serverId) ==
  IF clients[serverId] # None THEN clients[serverId][1].status
  ELSE DisconnectedStatus(serverId)

\* lines 260-262
getAllStatuses ==
  { clients[id][1].status : id \in { i \in ServerIds : clients[i] # None } }

\* lines 267-269
getCapabilities(serverId) ==
  IF clients[serverId] # None THEN clients[serverId][1].capabilities ELSE None

\* variant: get-or-create, an unknown id gets a record on first lookup
getStatusCallCreates(serverId) ==
  /\ calls < MaxCalls
  /\ last' = Ev("getStatus", serverId, TRUE, TRUE, "returned",
                Some(getStatus(serverId)), NoEnv)
  /\ clients' = IF clients[serverId] # None THEN clients
                ELSE [clients EXCEPT ![serverId] =
                        Some(FailedRecord(CHOOSE c \in Configs : c.id = serverId,
                                          DisconnectedStatus(serverId)))]
  /\ UNCHANGED <<ops, handles, nextClient, now>>
  /\ UNCHANGED storageVars
  /\ calls' = calls + 1
  /\ UNCHANGED appVars

\* lines 247-255 as a call: the caller receives the status, nothing is written
getStatusCall(serverId) ==
  /\ calls < MaxCalls
  /\ last' = Ev("getStatus", serverId, TRUE, TRUE, "returned",
                Some(getStatus(serverId)), NoEnv)
  /\ UNCHANGED <<clients, ops, handles, nextClient, now>>
  /\ UNCHANGED storageVars
  /\ calls' = calls + 1
  /\ UNCHANGED appVars

\* lines 260-262 as a call
getAllStatusesCall ==
  /\ calls < MaxCalls
  /\ last' = Ev("getAllStatuses", None, TRUE, TRUE, "returned",
                Some(getAllStatuses), NoEnv)
  /\ UNCHANGED <<clients, ops, handles, nextClient, now>>
  /\ UNCHANGED storageVars
  /\ calls' = calls + 1
  /\ UNCHANGED appVars

\* lines 267-269 as a call
getCapabilitiesCall(serverId) ==
  /\ calls < MaxCalls
  /\ last' = Ev("getCapabilities", serverId, TRUE, TRUE, "returned",
                Some(getCapabilities(serverId)), NoEnv)
  /\ UNCHANGED <<clients, ops, handles, nextClient, now>>
  /\ UNCHANGED storageVars
  /\ calls' = calls + 1
  /\ UNCHANGED appVars

\* --------------------------------------------------------------- mcpStorage
\* line 434
STORAGE_VERSION == 1

\* MCPServerConfig (types, lines 17-26) and the entry of MCPExportData
\* (lines 107-111); stdioConfig and httpConfig are optional
ServerKeys == {"id", "name", "transportType", "stdioConfig", "httpConfig",
               "enabled", "createdAt", "updatedAt"}
ExportKeys == {"name", "transportType", "stdioConfig", "httpConfig", "enabled"}
OptionalKeys == {"stdioConfig", "httpConfig"}

\* what the user can enter in the add-server form
NewServers ==
  { [name |-> "files", transportType |-> "stdio", stdioConfig |-> StdioOk,
     httpConfig |-> None, enabled |-> TRUE],
    [name |-> "search", transportType |-> "sse", stdioConfig |-> None,
     httpConfig |-> HttpOk, enabled |-> FALSE] }

\* JSON.stringify of one object: a property whose value is undefined is left out
StringifyObject(o) ==
  [k \in { x \in DOMAIN o : ~(x \in OptionalKeys /\ o[x] = None) } |-> o[k]]

\* the object JSON.parse yields, read as an MCPServerConfig: a property that
\* is not in the text reads as undefined
ParseObject(t) ==
  [k \in ServerKeys |-> IF k \in DOMAIN t THEN t[k] ELSE None]

\* line 469: JSON.stringify(data)
JSONStringify(data) ==
  [valid |-> TRUE, servers |-> MapSeq(StringifyObject, data.servers),
   version |-> data.version]

\* line 451: JSON.parse(data); it throws on text that is not JSON
JSONParse(text) ==
  IF text.valid
    THEN [threw |-> FALSE,
          value |-> [servers |-> MapSeq(ParseObject, text.servers),
                     version |-> text.version]]
    ELSE [threw |-> TRUE, value |-> [servers |-> <<>>, version |-> 0]]

\* an item that is not JSON
CorruptText == [valid |-> FALSE, servers |-> <<>>, version |-> 0]

\* lines 444-457
getServers ==
  IF ~hasWindow THEN <<>>
  ELSE IF localStorage = None THEN <<>>
  ELSE LET parsed == JSONParse(localStorage[1]) IN
       IF parsed.threw THEN <<>> ELSE parsed.value.servers

\* lines 462-474: the item after saveServers(servers); an error thrown by
\* setItem is logged and swallowed
saveServers(servers, setItemOk) ==
  IF ~hasWindow THEN localStorage
  ELSE IF setItemOk
    THEN Some(JSONStringify([servers |-> servers, version |-> STORAGE_VERSION]))
    ELSE localStorage

\* what localStorage.setItem can do
SetItemOutcomes == { Env("setItem", TRUE, NonError, None),
                     Env("setItem", FALSE, MkError("QuotaExceededError"), None) }

\* "@/lib/utils".generateId: the k-th identity generated from this state on is
\* a fresh one
generateId(k) == nextId + k

\* lines 484-488, 570-575: the entry built from a form or an imported entry
NewEntry(server, id, time) ==
  [k \in ServerKeys |->
     CASE k = "id" -> id
       [] k \in {"createdAt", "updatedAt"} -> time
       [] OTHER -> IF k \in DOMAIN server THEN server[k] ELSE None]

\* lines 479-495
addServer(config, time, setItem) ==
  /\ Len(getServers) < MaxStored /\ nextId <= MaxIds
  /\ time >= now
  /\ LET newServer == NewEntry(config, generateId(0), time)
         servers == Append(getServers, newServer) IN
     /\ localStorage' = saveServers(servers, setItem.ok)
     /\ last' = Ev("addServer", config, TRUE, TRUE, "returned",
                   Some(newServer), setItem)
  /\ nextId' = nextId + 1
  /\ now' = time
  /\ UNCHANGED <<clients, ops, handles, nextClient, hasWindow, exportFile>>
  /\ UNCHANGED calls
  /\ UNCHANGED appVars

\* lines 591-594
clearAll ==
  /\ localStorage' = IF ~hasWindow THEN localStorage ELSE None
  /\ last' = Ev("clearAll", None, TRUE, TRUE, "returned", None, NoEnv)
  /\ UNCHANGED <<clients, ops, handles, nextClient, now, hasWindow, nextId,
                 exportFile>>
  /\ UNCHANGED calls
  /\ UNCHANGED appVars

\* variant: the whole stored entry is exported, identity and timestamps too
ExportEntryWhole(server) == server

\* lines 549-555: the exported entry
ExportEntry(server) == [k \in ExportKeys |-> server[k]]

\* lines 545-558
exportServers(time) ==
  /\ time >= now
  /\ LET data == [version |-> STORAGE_VERSION, exportedAt |-> time,
                  servers |-> MapSeq(ExportEntry, getServers)] IN
     /\ exportFile' = Some(data)
     /\ last' = Ev("exportServers", None, TRUE, TRUE, "returned", Some(data),
                   NoEnv)
  /\ now' = time
  /\ UNCHANGED <<clients, ops, handles, nextClient, localStorage, hasWindow,
                 nextId>>
  /\ UNCHANGED calls
  /\ UNCHANGED appVars

\* lines 570-575
importedServers(data, time) ==
  [i \in 1..Len(data.servers) |->
     NewEntry(data.servers[i], generateId(i - 1), time)]

\* variant: the imported entries are put in front of the existing ones
allServersImportedFirst(existingServers, imported) ==
  imported \o existingServers

\* line 579
allServers(existingServers, imported) == existingServers \o imported

\* lines 563-586, called with the data of the last export
importServers(merge, time, setItem) ==
  /\ exportFile # None
  /\ time >= now
  /\ LET data == exportFile[1]
         imported == importedServers(data, time)
         result == IF merge THEN allServers(getServers, imported)
                   ELSE imported IN
     /\ nextId + Len(data.servers) <= MaxIds + 1
     /\ Len(result) <= 2 * MaxStored
     /\ localStorage' = saveServers(result, setItem.ok)
     /\ nextId' = nextId + Len(data.servers)
     /\ last' = Ev("importServers", [data |-> data, merge |-> merge],
                   TRUE, TRUE, "returned", Some(result), setItem)
  /\ now' = time
  /\ UNCHANGED <<clients, ops, handles, nextClient, hasWindow, exportFile>>
  /\ UNCHANGED calls
  /\ UNCHANGED appVars

\* --------------------------------------------------- convertToGeminiFunctions
\* A string is the sequence of its characters.
Letters == {"a", "b", "c", "d", "e", "f", "g", "h", "i", "j", "k", "l", "m",
            "n", "o", "p", "q", "r", "s", "t", "u", "v", "w", "x", "y", "z",
            "A", "B", "C", "D", "E", "F", "G", "H", "I", "J", "K", "L", "M",
            "N", "O", "P", "Q", "R", "S", "T", "U", "V", "W", "X", "Y", "Z"}
DigitChars == <<"0", "1", "2", "3", "4", "5", "6", "7", "8", "9">>

\* line 18: the characters the pattern [^a-zA-Z0-9_] leaves alone
WordChars == Letters \cup { DigitChars[i] : i \in 1..10 } \cup {"_"}

\* line 19: the length substring(0, 64) cuts the name to
SafeNameLength == 64

\* line 19: `${index}`, the decimal digits of the index
RECURSIVE Decimal(_)
Decimal(n) ==
  IF n < 10 THEN <<DigitChars[n + 1]>>
  ELSE Decimal(n \div 10) \o <<DigitChars[(n % 10) + 1]>>

\* line 18
sanitizedToolName(name) ==
  [i \in 1..Len(name) |-> IF name[i] \in WordChars THEN name[i] ELSE "_"]

\* variant: the index is put behind the tool name, where the cut can drop it
safeNameIndexLast(index, name) ==
  LET full == <<"m", "c", "p", "_">> \o sanitizedToolName(name) \o <<"_">>
              \o Decimal(index) IN
  SubSeq(full, 1, IF Len(full) < SafeNameLength THEN Len(full)
                  ELSE SafeNameLength)

\* line 19
safeName(index, name) ==
  LET full == <<"m", "c", "p", "_">> \o Decimal(index) \o <<"_">>
              \o sanitizedToolName(name) IN
  SubSeq(full, 1, IF Len(full) < SafeNameLength THEN Len(full)
                  ELSE SafeNameLength)

\* lines 67-83
mapJsonSchemaTypeToGemini(type) ==
  CASE type = "string" -> "STRING"
    [] type \in {"number", "integer"} -> "NUMBER"
    [] type = "boolean" -> "BOOLEAN"
    [] type = "array" -> "ARRAY"
    [] type = "object" -> "OBJECT"
    [] OTHER -> "STRING"

\* lines 25-53: the parameters built from tool.inputSchema
geminiParameters(inputSchema) ==
  IF inputSchema # None /\ inputSchema[1].properties # None
    THEN [type |-> "OBJECT",
          properties |->
            MapSeq(LAMBDA prop :
                     [key |-> prop.key,
                      type |-> mapJsonSchemaTypeToGemini(prop.type),
                      description |-> IF prop.description = None THEN ""
                                      ELSE prop.description[1]],
                   inputSchema[1].properties[1]),
          required |-> IF inputSchema[1].required # None
                          /\ inputSchema[1].required[1].isArray
                         THEN Some(inputSchema[1].required[1].value)
                         ELSE None]
    ELSE [type |-> "OBJECT", properties |-> <<>>, required |-> None]

\* lines 15-62: the declaration and the map entry of the tool at `index`
Declaration(tool, index) ==
  [name |-> safeName(index, tool.name),
   description |-> IF tool.description = None \/ tool.description[1] = ""
                     THEN tool.name ELSE tool.description[1],
   parameters |-> geminiParameters(tool.inputSchema)]

\* lines 7-65: toolMap.set in list order, a later entry replaces an earlier
\* one of the same name
convertToGeminiFunctions(tools) ==
  LET declarations == [i \in 1..Len(tools) |-> Declaration(tools[i], i - 1)]
      names == { declarations[i].name : i \in 1..Len(tools) }
      lastSet(n) == CHOOSE i \in 1..Len(tools) :
                      /\ declarations[i].name = n
                      /\ \A j \in 1..Len(tools) :
                           declarations[j].name = n => j <= i IN
  [declarations |-> declarations,
   toolMap |-> [n \in names |->
                  [serverId |-> tools[lastSet(n)].serverId,
                   toolName |-> tools[lastSet(n)].name]]]

\* line 129 of POST: the tools of the request are converted
convertTools ==
  /\ gemini = None
  /\ gemini' = Some(convertToGeminiFunctions(mcpTools))
  /\ last' = Ev("convertToGeminiFunctions", None, TRUE, TRUE, "returned",
                None, NoEnv)
  /\ UNCHANGED <<registryVars, now, storageVars, mcpTools, chat, ui>>

\* tool lists: what the servers can name their tools
Repeat(c, n) == [i \in 1..n |-> c]
ToolNameInputs ==
  { <<"x">>, <<"2", "x">>, <<"a", "-", "b">>, <<"a", "_", "b">>,
    <<"a", ".", "b">>, Repeat("a", 60) \o <<"b">>,
    <<"a", "-">> \o Repeat("a", 58) \o <<"b">>,
    <<"a", "-">> \o Repeat("a", 58) \o <<"c">> }

SchemaInputs ==
  << None,
     Some([properties |-> None, required |-> None]),
     Some([properties |->
             Some(<< [key |-> "q", type |-> "string", description |-> Some("query")],
                     [key |-> "n", type |-> "integer", description |-> None],
                     [key |-> "z", type |-> "tuple", description |-> None] >>),
           required |-> Some([isArray |-> TRUE, value |-> <<"q">>])]) >>

GeminiTool(name, serverId) ==
  [name |-> name, serverId |-> serverId,
   description |-> IF Len(name) = 1 THEN None
                   ELSE IF Len(name) = 2 THEN Some("") ELSE Some("a tool"),
   inputSchema |-> SchemaInputs[(Len(name) % 3) + 1]]

\* a list of n tools, all named "t" but the ones at positions i and j
ToolList(n, i, j, a, b) ==
  [k \in 1..n |-> IF k = i THEN GeminiTool(a, "s1")
                  ELSE IF k = j THEN GeminiTool(b, "s2")
                  ELSE GeminiTool(<<"t">>, "s1")]

GeminiToolLists(max) ==
  { ToolList(n, 0, 0, <<"t">>, <<"t">>) : n \in 0..max }
    \cup { ToolList(n, ij[1], ij[2], ab[1], ab[2]) :
             n \in 2..max,
             ij \in { p \in (1..max) \X (1..max) : p[1] < p[2] },
             ab \in ToolNameInputs \X ToolNameInputs }

\* ------------------------------------------------------------- POST /api/chat
\* chat.toolCallInfo[id] is the ToolCallInfo object with that id; chat.toolCalls
\* lists the ids of the objects pushed (a push stores the reference, the stream
\* event the JSON text of the object at the time of the enqueue).
StreamEvent(marker, info) ==
  [marker |-> marker, id |-> info.id, status |-> info.status]
TextEvent == [marker |-> "TEXT", id |-> 0, status |-> "none"]

\* lines 264-269: the final text is sent and the stream closed
finishStream(c) ==
  [c EXCEPT !.pc = "done",
            !.stream = IF c.finalText # "" THEN Append(c.stream, TextEvent)
                       ELSE c.stream,
            !.closed = TRUE,
            !.current = 0]

\* lines 182-204: `for (const part of parts)` up to the next await
RECURSIVE processParts(_, _)
processParts(c, toolMap) ==
  IF c.parts = <<>> THEN finishStream(c)
  ELSE
    LET part == Head(c.parts)
        withText == IF part.text # None
                      THEN [c EXCEPT !.parts = Tail(c.parts),
                                     !.finalText = c.finalText \o part.text[1]]
                      ELSE [c EXCEPT !.parts = Tail(c.parts)]
        fnName == IF part.functionCall = None
                     \/ part.functionCall[1].name = None THEN <<>>
                  ELSE part.functionCall[1].name[1] IN
    IF part.functionCall # None /\ fnName \in DOMAIN toolMap
      THEN LET toolCallId == Len(c.toolCallInfo) + 1
               info == [id |-> toolCallId,
                        toolName |-> toolMap[fnName].toolName,
                        serverId |-> toolMap[fnName].serverId,
                        status |-> "calling"] IN
           [withText EXCEPT !.pc = "callTool",
                            !.toolCallInfo = Append(c.toolCallInfo, info),
                            !.current = toolCallId,
                            !.stream = Append(c.stream,
                                              StreamEvent("TOOL_CALL", info))]
      ELSE processParts(withText, toolMap)

\* lines 247-259: the catch of the tool call's try block
toolCallCatch(c) ==
  LET info == [c.toolCallInfo[c.current] EXCEPT !.status = "error"] IN
  [c EXCEPT !.toolCallInfo[c.current] = info,
            !.toolCalls = Append(c.toolCalls, c.current),
            !.stream = Append(c.stream, StreamEvent("TOOL_RESULT", info)),
            !.finalText = c.finalText \o "[Tool Error]"]

\* what the model answers: text parts and function calls
PartInputs(toolMap) ==
  { [text |-> Some("hi"), functionCall |-> None],
    [text |-> None, functionCall |-> Some([name |-> None])],
    [text |-> None,
     functionCall |-> Some([name |-> Some(<<"n", "o", "n", "e">>)])] }
    \cup { [text |-> t, functionCall |-> Some([name |-> Some(n)])] :
             t \in {None, Some("hi")}, n \in DOMAIN toolMap }

RECURSIVE SeqsUpTo(_, _)
SeqsUpTo(S, n) ==
  IF n = 0 THEN { <<>> }
  ELSE LET shorter == SeqsUpTo(S, n - 1) IN
       shorter \cup { Append(q, x) : q \in shorter, x \in S }

\* lines 116-167: POST up to the first generateContent
chatPOST ==
  /\ chat.pc = "idle"
  /\ \E apiKey \in BOOLEAN, mcpEnabled \in BOOLEAN :
       IF ~apiKey
         THEN /\ chat' = [chat EXCEPT !.pc = "done", !.response = "500"]
              /\ UNCHANGED gemini
         ELSE /\ gemini' = Some(convertToGeminiFunctions(
                                  IF mcpEnabled THEN mcpTools ELSE <<>>))
              /\ chat' = [chat EXCEPT !.pc = "generateContent",
                                      !.response = "stream"]
  /\ last' = Ev("POST", None, TRUE, FALSE, "none", None, NoEnv)
  /\ UNCHANGED <<registryVars, now, storageVars, mcpTools, ui>>

\* lines 167-204 and 270-274: the first generateContent settles
chatGenerateContentResume ==
  /\ chat.pc = "generateContent"
  /\ \/ \E parts \in SeqsUpTo(PartInputs(gemini[1].toolMap), MaxParts) :
          chat' = processParts([chat EXCEPT !.parts = parts],
                               gemini[1].toolMap)
     \/ chat' = [chat EXCEPT !.pc = "done",
                             !.stream = Append(chat.stream, TextEvent),
                             !.closed = TRUE]
  /\ last' = Ev("generateContent", None, FALSE, TRUE, "none", None, NoEnv)
  /\ UNCHANGED <<registryVars, now, storageVars, mcpTools, gemini, ui>>

\* lines 207-220 and 247-259: mcpClientManager.callTool settles
chatCallToolResume ==
  /\ chat.pc = "callTool"
  /\ \/ LET info == [chat.toolCallInfo[chat.current]
                       EXCEPT !.status = "success"] IN
        chat' = [chat EXCEPT !.pc = "finalResponse",
                             !.toolCallInfo[chat.current] = info,
                             !.toolCalls = Append(chat.toolCalls, chat.current),
                             !.stream = Append(chat.stream,
                                               StreamEvent("TOOL_RESULT", info))]
     \/ chat' = processParts(toolCallCatch(chat), gemini[1].toolMap)
  /\ last' = Ev("callTool", None, FALSE, TRUE, "none", None, NoEnv)
  /\ UNCHANGED <<registryVars, now, storageVars, mcpTools, gemini, ui>>

\* lines 240-259: the generateContent that follows the tool result settles
chatFinalResponseResume ==
  /\ chat.pc = "finalResponse"
  /\ \/ \E text \in {"", "answer"} :
          chat' = processParts([chat EXCEPT !.finalText = text],
                               gemini[1].toolMap)
     \/ chat' = processParts(toolCallCatch(chat), gemini[1].toolMap)
  /\ last' = Ev("generateContent", None, FALSE, TRUE, "none", None, NoEnv)
  /\ UNCHANGED <<registryVars, now, storageVars, mcpTools, gemini, ui>>

\* the tools the connected servers offer when a chat request arrives
ChatToolLists ==
  { <<>>, ToolList(2, 1, 2, <<"x">>, <<"a", "-", "b">>) }

\* ------------------------------------------------------ MCPProvider (browser)
\* ui.statuses and ui.capabilities are the two Maps of the component's state,
\* ui.requests the calls of connect / disconnect in flight, ui.pc and ui.queue
\* the position of autoConnectServers in its loop over the enabled servers.
ConnectingStatus(serverId) ==
  [serverId |-> serverId, status |-> "connecting",
   error |-> None, lastConnected |-> None]

UiErrorStatus(serverId, message) ==
  [serverId |-> serverId, status |-> "error",
   error |-> Some(message), lastConnected |-> None]

\* part_003 lines 5-33: the body the connect route answers with
connectRoute(config, manager) ==
  IF manager.kind = "threw"
    THEN [success |-> FALSE, data |-> None, error |-> Some("Failed to connect")]
  ELSE IF config.id = ""
    THEN [success |-> FALSE, data |-> None,
          error |-> Some("Invalid server config")]
  ELSE [success |-> manager.status.status = "connected",
        data |-> Some(manager.status),
        error |-> manager.status.error]

\* what the route's handler meets: the status mcpClientManager.connect
\* returned, or an exception
ManagerOutcomes(id) ==
  { [kind |-> "status", status |-> ConnectedStatus(id, 1)],
    [kind |-> "status", status |-> ErrorStatus(id, MkError("ECONNREFUSED"))],
    [kind |-> "threw"] }

\* what `await response.json()` settles with after a connect request
Unparsable == [kind |-> "unparsable", result |-> None]
ConnectResults(server) ==
  { Unparsable, [kind |-> "json", result |-> None] }
    \cup { [kind |-> "json", result |-> Some(connectRoute(server, m))] :
             m \in ManagerOutcomes(server.id) }

\* variant: a body that cannot be parsed leaves the status as it was set
connectResultParseUncaught(serverId, r) ==
  IF r.kind = "unparsable" THEN ConnectingStatus(serverId)
  ELSE IF r.result = None
    THEN UiErrorStatus(serverId, "Cannot read properties of null")
  ELSE IF r.result[1].success /\ r.result[1].data # None
    THEN r.result[1].data[1]
  ELSE UiErrorStatus(serverId, IF r.result[1].error # None
                                 THEN r.result[1].error[1]
                                 ELSE "Connection failed")

\* lines 239-276: the status connect() sets once the body was read
connectResult(serverId, r) ==
  IF r.kind = "unparsable" THEN UiErrorStatus(serverId, "Unexpected token")
  ELSE IF r.result = None
    THEN UiErrorStatus(serverId, "Cannot read properties of null")
  ELSE IF r.result[1].success /\ r.result[1].data # None
    THEN r.result[1].data[1]
  ELSE UiErrorStatus(serverId, IF r.result[1].error # None
                                 THEN r.result[1].error[1]
                                 ELSE "Connection failed")

\* lines 98-146: the status autoConnectServers sets once the body was read
autoConnectResult(serverId, r) ==
  IF r.kind = "unparsable" THEN UiErrorStatus(serverId, "Unexpected token")
  ELSE IF r.result = None
    THEN UiErrorStatus(serverId, "Cannot read properties of null")
  ELSE IF r.result[1].success /\ r.result[1].data # None
    THEN r.result[1].data[1]
  ELSE UiErrorStatus(serverId, IF r.result[1].error # None
                                 THEN r.result[1].error[1]
                                 ELSE "Connection failed")

\* what the capabilities request of lines 70-72, 111-113 and 198-199 gives
CapabilityResults ==
  { Unparsable,
    [kind |-> "json", result |-> Some([success |-> TRUE, data |-> Some("caps")])],
    [kind |-> "json", result |-> Some([success |-> FALSE, data |-> None])] }

\* lines 73-79, 114-120, 201-207: the capabilities Map after the body was read
capabilitiesAfter(capabilities, serverId, r) ==
  IF r.kind = "json" /\ r.result[1].success /\ r.result[1].data # None
    THEN [capabilities EXCEPT ![serverId] = r.result[1].data]
    ELSE capabilities

\* lines 56-58: what the status request settles with; null when it failed
StatusResults(id) ==
  { None,
    Some([success |-> FALSE, data |-> None]),
    Some([success |-> TRUE, data |-> Some(ConnectedStatus(id, 1))]),
    Some([success |-> TRUE, data |-> Some(DisconnectedStatus(id))]) }

\* what `await response.json()` settles with after a disconnect request
DisconnectResults(id) ==
  { Unparsable, [kind |-> "json", result |-> None],
    [kind |-> "json",
     result |-> Some([success |-> TRUE, data |-> Some(DisconnectedStatus(id))])],
    [kind |-> "json", result |-> Some([success |-> FALSE, data |-> None])] }

\* the server lists mcpStorage.getServers() hands to the page
UiServer(id, enabled) == [id |-> id, enabled |-> enabled]
UiServerLists ==
  { <<>>, <<UiServer("s1", TRUE)>>,
    <<UiServer("s1", FALSE), UiServer("s2", TRUE)>>,
    <<UiServer("s1", TRUE), UiServer("s2", TRUE)>> }

\* line 54 and the `for` of line 55: the loop takes the next enabled server,
\* or autoConnectServers returns and the `finally` of line 157 runs
autoLoop(u, queue) ==
  IF queue = <<>>
    THEN [u EXCEPT !.queue = <<>>, !.pc = "done", !.isLoading = FALSE]
    ELSE [u EXCEPT !.queue = queue, !.pc = "status"]

UiStep(op, arg, outcome) == Ev(op, arg, FALSE, TRUE, outcome, None, NoEnv)

\* lines 151-159: the effect on mount; autoConnectServers up to line 56
mount(loadedServers) ==
  /\ ui.pc = "idle"
  /\ ui' = autoLoop([ui EXCEPT !.servers = loadedServers],
                    SelectSeq(loadedServers, LAMBDA srv : srv.enabled))
  /\ last' = UiStep("mount", None, "none")
  /\ UNCHANGED <<registryVars, now, storageVars, mcpTools, gemini, chat>>

\* lines 56-68, 85-96: the status request settled
autoStatusResume(currentStatus) ==
  /\ ui.pc = "status"
  /\ LET id == Head(ui.queue).id IN
     /\ currentStatus \in StatusResults(id)
     /\ IF currentStatus # None /\ currentStatus[1].data # None
           /\ currentStatus[1].data[1].status = "connected"
          THEN ui' = [ui EXCEPT !.statuses[id] = currentStatus[1].data,
                                !.pc = "capabilities"]
          ELSE ui' = [ui EXCEPT !.statuses[id] = Some(ConnectingStatus(id)),
                                !.pc = "connect"]
     /\ last' = UiStep("autoConnectServers", id, "none")
  /\ UNCHANGED <<registryVars, now, storageVars, mcpTools, gemini, chat>>

\* lines 92-98, 134-146: the connect request settled
autoConnectFetchResume(ok) ==
  /\ ui.pc = "connect"
  /\ LET id == Head(ui.queue).id IN
     /\ IF ok THEN ui' = [ui EXCEPT !.pc = "connectJson"]
        ELSE ui' = autoLoop([ui EXCEPT !.statuses[id] =
                               Some(UiErrorStatus(id, "Failed to fetch"))],
                            Tail(ui.queue))
     /\ last' = UiStep("autoConnectServers", id,
                       IF ok THEN "none" ELSE "settled")
  /\ UNCHANGED <<registryVars, now, storageVars, mcpTools, gemini, chat>>

\* lines 98-146: the body of the connect response was read
autoConnectJsonResume(r) ==
  /\ ui.pc = "connectJson"
  /\ LET id == Head(ui.queue).id
         status == autoConnectResult(id, r)
         set == [ui EXCEPT !.statuses[id] = Some(status)] IN
     /\ r \in ConnectResults(Head(ui.queue))
     /\ IF r.kind = "json" /\ r.result # None /\ r.result[1].success
           /\ r.result[1].data # None /\ status.status = "connected"
          THEN ui' = [set EXCEPT !.pc = "capabilities"]
          ELSE ui' = autoLoop(set, Tail(ui.queue))
     /\ last' = UiStep("autoConnectServers", id, "settled")
  /\ UNCHANGED <<registryVars, now, storageVars, mcpTools, gemini, chat>>

\* lines 70-83, 110-125: the capabilities request settled
autoCapabilitiesFetchResume(ok) ==
  /\ ui.pc = "capabilities"
  /\ ui' = IF ok THEN [ui EXCEPT !.pc = "capabilitiesJson"]
           ELSE autoLoop(ui, Tail(ui.queue))
  /\ last' = UiStep("autoConnectServers", Head(ui.queue).id, "none")
  /\ UNCHANGED <<registryVars, now, storageVars, mcpTools, gemini, chat>>

\* lines 72-83, 112-125: the body of the capabilities response was read
autoCapabilitiesJsonResume(r) ==
  /\ ui.pc = "capabilitiesJson"
  /\ r \in CapabilityResults
  /\ LET id == Head(ui.queue).id IN
     /\ ui' = autoLoop([ui EXCEPT !.capabilities =
                          capabilitiesAfter(ui.capabilities, id, r)],
                       Tail(ui.queue))
     /\ last' = UiStep("autoConnectServers", id, "none")
  /\ UNCHANGED <<registryVars, now, storageVars, mcpTools, gemini, chat>>

\* lines 218-237: connect(serverId) up to the fetch
uiConnect(serverId) ==
  /\ ui.calls < MaxUiCalls
  /\ IF \E i \in 1..Len(ui.servers) : ui.servers[i].id = serverId
       THEN ui' = [ui EXCEPT
                     !.calls = @ + 1,
                     !.statuses[serverId] = Some(ConnectingStatus(serverId)),
                     !.requests = @ (+) SetToBag({[kind |-> "connect",
                                                  serverId |-> serverId,
                                                  pc |-> "fetch"]})]
       ELSE ui' = [ui EXCEPT !.calls = @ + 1]
  /\ last' = Ev("MCPProvider.connect", serverId, TRUE, FALSE, "none", None,
                NoEnv)
  /\ UNCHANGED <<registryVars, now, storageVars, mcpTools, gemini, chat>>

UiReplaced(req, new) ==
  (ui.requests (-) SetToBag({req})) (+) SetToBag({new})

\* lines 232-239, 264-277: the connect request settled
uiConnectFetchResume(req, ok) ==
  /\ req \in BagToSet(ui.requests)
  /\ req.kind = "connect" /\ req.pc = "fetch"
  /\ IF ok
       THEN ui' = [ui EXCEPT !.requests = UiReplaced(req, [req EXCEPT !.pc = "json"])]
       ELSE ui' = [ui EXCEPT
                     !.requests = @ (-) SetToBag({req}),
                     !.statuses[req.serverId] =
                        Some(UiErrorStatus(req.serverId, "Failed to fetch"))]
  /\ last' = UiStep("MCPProvider.connect", req.serverId,
                    IF ok THEN "none" ELSE "settled")
  /\ UNCHANGED <<registryVars, now, storageVars, mcpTools, gemini, chat>>

\* lines 239-277: the body of the connect response was read
uiConnectJsonResume(req, r) ==
  /\ req \in BagToSet(ui.requests)
  /\ req.kind = "connect" /\ req.pc = "json"
  /\ \E i \in 1..Len(ui.servers) :
       /\ ui.servers[i].id = req.serverId
       /\ r \in ConnectResults(ui.servers[i])
  /\ LET status == connectResult(req.serverId, r) IN
     ui' = [ui EXCEPT
              !.statuses[req.serverId] = Some(status),
              !.requests =
                 IF r.kind = "json" /\ r.result # None /\ r.result[1].success
                    /\ r.result[1].data # None /\ status.status = "connected"
                   THEN UiReplaced(req, [req EXCEPT !.pc = "refresh"])
                   ELSE @ (-) SetToBag({req})]
  /\ last' = UiStep("MCPProvider.connect", req.serverId, "settled")
  /\ UNCHANGED <<registryVars, now, storageVars, mcpTools, gemini, chat>>

\* lines 196-215, 249-251: refreshCapabilities settled and connect() returns
uiConnectRefreshResume(req, r) ==
  /\ req \in BagToSet(ui.requests)
  /\ req.kind = "connect" /\ req.pc = "refresh"
  /\ r \in CapabilityResults
  /\ ui' = [ui EXCEPT
              !.requests = @ (-) SetToBag({req}),
              !.capabilities = capabilitiesAfter(ui.capabilities,
                                                 req.serverId, r)]
  /\ last' = UiStep("MCPProvider.connect", req.serverId, "returned")
  /\ UNCHANGED <<registryVars, now, storageVars, mcpTools, gemini, chat>>

\* lines 282-288: disconnect(serverId) up to the fetch
uiDisconnect(serverId) ==
  /\ ui.calls < MaxUiCalls
  /\ ui' = [ui EXCEPT
              !.calls = @ + 1,
              !.requests = @ (+) SetToBag({[kind |-> "disconnect",
                                           serverId |-> serverId,
                                           pc |-> "fetch"]})]
  /\ last' = Ev("MCPProvider.disconnect", serverId, TRUE, FALSE, "none", None,
                NoEnv)
  /\ UNCHANGED <<registryVars, now, storageVars, mcpTools, gemini, chat>>

\* lines 284-317: the disconnect request settled and its body was read
uiDisconnectResume(req, ok, r) ==
  /\ req \in BagToSet(ui.requests)
  /\ req.kind = "disconnect"
  /\ r \in DisconnectResults(req.serverId)
  /\ IF ok /\ r.kind = "json" /\ r.result # None
       THEN ui' = [ui EXCEPT
                     !.requests = @ (-) SetToBag({req}),
                     !.statuses[req.serverId] =
                        IF r.result[1].data # None THEN r.result[1].data
                        ELSE Some(DisconnectedStatus(req.serverId)),
                     !.capabilities[req.serverId] = None]
       ELSE ui' = [ui EXCEPT
                     !.requests = @ (-) SetToBag({req}),
                     !.statuses[req.serverId] =
                        Some(DisconnectedStatus(req.serverId))]
  /\ last' = UiStep("MCPProvider.disconnect", req.serverId, "settled")
  /\ UNCHANGED <<registryVars, now, storageVars, mcpTools, gemini, chat>>

\* ------------------------------------------------------------ specifications
\* concurrent request handlers on the shared registry
Next ==
  \/ \E config \in Configs : connect(config)
  \/ \E op \in InFlight : connectResumeTransport(op)
  \/ \E op \in InFlight, h \in FewOutcomes : connectResumeHandshake(op, h)
  \/ \E op \in InFlight, settled \in FewSettled, time \in 1..MaxTime :
        connectResumeCapabilities(op, settled, time)
  \/ \E serverId \in ServerIds : disconnect(serverId)
  \/ \E op \in InFlight, c \in CloseOutcomes : disconnectResumeClose(op, c)
  \/ disconnectAll
  \/ \E op \in InFlight, serverId \in ServerIds, c \in CloseOutcomes :
        disconnectAllResumeClose(op, serverId, c)
  \/ \E serverId \in ServerIds, toolName \in ToolNames, args \in FewToolArgs :
        callTool(serverId, toolName, args)
  \/ \E serverId \in ServerIds, promptName \in PromptNames, args \in PromptArgs :
        getPrompt(serverId, promptName, args)
  \/ \E serverId \in ServerIds, uri \in Uris : readResource(serverId, uri)
  \/ \E op \in InFlight, r \in InvokeOutcomes : invokeResume(op, r)

Spec == Init /\ [][Next]_vars

\* one caller at a time, every shape of input and every outcome
Sequential == ops = EmptyBag

NextSeq ==
  \/ \E config \in AllConfigs : Sequential /\ connect(config)
  \/ \E op \in InFlight : connectResumeTransport(op)
  \/ \E op \in InFlight, h \in AllOutcomes :
        connectResumeHandshake(op, h)
  \/ \E op \in InFlight, settled \in SettledResults, time \in 1..MaxTime :
        connectResumeCapabilities(op, settled, time)
  \/ \E serverId \in ServerIds : Sequential /\ disconnect(serverId)
  \/ \E op \in InFlight, c \in CloseOutcomes : disconnectResumeClose(op, c)
  \/ \E serverId \in ServerIds, toolName \in ToolNames, args \in ToolArgs :
        Sequential /\ callTool(serverId, toolName, args)
  \/ \E serverId \in ServerIds, promptName \in PromptNames, args \in PromptArgs :
        Sequential /\ getPrompt(serverId, promptName, args)
  \/ \E serverId \in ServerIds, uri \in Uris :
        Sequential /\ readResource(serverId, uri)
  \/ \E op \in InFlight, r \in InvokeOutcomes : invokeResume(op, r)

SpecSeq == Init /\ [][NextSeq]_vars

\* status and capability lookups interleaved with concurrent connects and
\* disconnects
NextLookup ==
  \/ \E config \in Configs : connect(config)
  \/ \E op \in InFlight : connectResumeTransport(op)
  \/ \E op \in InFlight, h \in FewOutcomes : connectResumeHandshake(op, h)
  \/ \E op \in InFlight, settled \in FewSettled, time \in 1..MaxTime :
        connectResumeCapabilities(op, settled, time)
  \/ \E serverId \in ServerIds : disconnect(serverId)
  \/ \E op \in InFlight, c \in CloseOutcomes : disconnectResumeClose(op, c)
  \/ \E serverId \in ServerIds : getStatusCall(serverId)
  \/ getAllStatusesCall
  \/ \E serverId \in ServerIds : getCapabilitiesCall(serverId)

SpecLookup == Init /\ [][NextLookup]_vars

\* the configuration store in the browser (or rendered on the server, where
\* there is no window): the item is absent or is not JSON
InitStorage ==
  /\ clients = [id \in ServerIds |-> None]
  /\ ops = EmptyBag
  /\ handles = [h \in 1..MaxClients |->
                 [name |-> "", connectCalls |-> 0, listCalls |-> 0,
                  closeCalls |-> 0]]
  /\ nextClient = 1
  /\ now = 1
  /\ last = NoEvent
  /\ calls = 0
  /\ NoApp
  /\ \/ hasWindow = FALSE /\ localStorage = None
     \/ hasWindow = TRUE /\ localStorage \in {None, Some(CorruptText)}
  /\ nextId = 1
  /\ exportFile = None

NextStorage ==
  \/ \E config \in NewServers, time \in 1..MaxTime, setItem \in SetItemOutcomes :
        addServer(config, time, setItem)
  \/ clearAll
  \/ \E time \in 1..MaxTime : exportServers(time)
  \/ \E merge \in BOOLEAN, time \in 1..MaxTime, setItem \in SetItemOutcomes :
        importServers(merge, time, setItem)

SpecStorage == InitStorage /\ [][NextStorage]_vars

\* a chat request arrives with some list of tools
InitGemini ==
  /\ clients = [id \in ServerIds |-> None]
  /\ ops = EmptyBag
  /\ handles = [h \in 1..MaxClients |->
                 [name |-> "", connectCalls |-> 0, listCalls |-> 0,
                  closeCalls |-> 0]]
  /\ nextClient = 1
  /\ now = 1
  /\ last = NoEvent
  /\ calls = 0
  /\ NoStorage
  /\ mcpTools \in GeminiToolLists(MaxTools)
  /\ gemini = None
  /\ chat = IdleChat
  /\ ui = IdleUi

NextGemini == convertTools

SpecGemini == InitGemini /\ [][NextGemini]_vars

\* a chat request is served
InitChat ==
  /\ clients = [id \in ServerIds |-> None]
  /\ ops = EmptyBag
  /\ handles = [h \in 1..MaxClients |->
                 [name |-> "", connectCalls |-> 0, listCalls |-> 0,
                  closeCalls |-> 0]]
  /\ nextClient = 1
  /\ now = 1
  /\ last = NoEvent
  /\ calls = 0
  /\ NoStorage
  /\ mcpTools \in ChatToolLists
  /\ gemini = None
  /\ chat = IdleChat
  /\ ui = IdleUi

NextChat ==
  \/ chatPOST
  \/ chatGenerateContentResume
  \/ chatCallToolResume
  \/ chatFinalResponseResume

SpecChat == InitChat /\ [][NextChat]_vars

\* a page is opened
InitUi ==
  /\ clients = [id \in ServerIds |-> None]
  /\ ops = EmptyBag
  /\ handles = [h \in 1..MaxClients |->
                 [name |-> "", connectCalls |-> 0, listCalls |-> 0,
                  closeCalls |-> 0]]
  /\ nextClient = 1
  /\ now = 1
  /\ last = NoEvent
  /\ calls = 0
  /\ NoStorage
  /\ NoApp

NextUi ==
  \/ \E loadedServers \in UiServerLists : mount(loadedServers)
  \/ \E currentStatus \in UNION { StatusResults(id) : id \in ServerIds } :
        autoStatusResume(currentStatus)
  \/ \E ok \in BOOLEAN : autoConnectFetchResume(ok)
  \/ \E r \in UNION { ConnectResults(UiServer(id, TRUE)) : id \in ServerIds } :
        autoConnectJsonResume(r)
  \/ \E ok \in BOOLEAN : autoCapabilitiesFetchResume(ok)
  \/ \E r \in CapabilityResults : autoCapabilitiesJsonResume(r)
  \/ \E serverId \in ServerIds : uiConnect(serverId)
  \/ \E req \in BagToSet(ui.requests), ok \in BOOLEAN :
        uiConnectFetchResume(req, ok)
  \/ \E req \in BagToSet(ui.requests),
        r \in UNION { ConnectResults(UiServer(id, e)) :
                        id \in ServerIds, e \in BOOLEAN } :
        uiConnectJsonResume(req, r)
  \/ \E req \in BagToSet(ui.requests), r \in CapabilityResults :
        uiConnectRefreshResume(req, r)
  \/ \E serverId \in ServerIds : uiDisconnect(serverId)
  \/ \E req \in BagToSet(ui.requests), ok \in BOOLEAN,
        r \in UNION { DisconnectResults(id) : id \in ServerIds } :
        uiDisconnectResume(req, ok, r)

SpecUi == InitUi /\ [][NextUi]_vars

\* the registry after connect() has succeeded for every id, one after the
\* other, with MaxClients further Clients left to construct
InitAll ==
  LET settled == [tools |-> Fulfilled(<<ToolA>>), prompts |-> Rejected,
                  resources |-> Rejected]
      handleOf == [id \in ServerIds |-> IF id = "s1" THEN 1 ELSE 2]
      configOf == [id \in ServerIds |->
                     IF id = "s1" THEN MkConfig("s1", "sse", None, HttpOk)
                     ELSE MkConfig("s2", "stdio", StdioOk, None)] IN
  /\ clients = [id \in ServerIds |->
                  Some(ConnectedRecord(handleOf[id], configOf[id],
                                       ConnectedStatus(id, 1),
                                       fetchCapabilities(settled).value))]
  /\ ops = EmptyBag
  /\ handles = [h \in 1..(2 + MaxClients) |->
                  IF h <= 2
                    THEN [name |-> ClientName(configOf[IF h = 1 THEN "s1" ELSE "s2"]),
                          connectCalls |-> 1, listCalls |-> 3, closeCalls |-> 0]
                    ELSE [name |-> "", connectCalls |-> 0, listCalls |-> 0,
                          closeCalls |-> 0]]
  /\ nextClient = 3
  /\ now = 1
  /\ last = NoEvent
  /\ calls = 0
  /\ NoApp
  /\ NoStorage

\* disconnectAll racing with connects, from the state in which every id is
\* connected
NextAll ==
  \/ \E config \in Configs : connect(config)
  \/ \E op \in InFlight : connectResumeTransport(op)
  \/ \E op \in InFlight, h \in FewOutcomes : connectResumeHandshake(op, h)
  \/ \E op \in InFlight, settled \in FewSettled, time \in 1..MaxTime :
        connectResumeCapabilities(op, settled, time)
  \/ disconnectAll
  \/ \E op \in InFlight, serverId \in ServerIds, c \in CloseOutcomes :
        disconnectAllResumeClose(op, serverId, c)

SpecAll == InitAll /\ [][NextAll]_vars

\* ------------------------------------------------------------------- claims
IsConnected(id) ==
  clients[id] # None /\ clients[id][1].status.status = "connected"

\* C1: in every reachable state a record whose status is "connected" holds a
\* non-null client handle, one that connect() constructed.
C1_ConnectedHasClient ==
  \A id \in ServerIds :
    IsConnected(id) => clients[id][1].client \in 1..(nextClient - 1)

\* C1 witness: a connected record while a disconnect of the same id is waiting
\* for close() and another operation has run.
C1_Witness ==
  \E id \in ServerIds :
    /\ IsConnected(id) /\ clients[id][1].client # 0
    /\ \E op \in InFlight : op.kind = "disconnect" /\ op.serverId = id

\* C2: callTool, getPrompt and readResource called for an id that has no
\* record or whose record is not "connected" fail at once with the
\* "not connected" error, start nothing and call no client handle.
C2_NotConnectedRejected ==
  [][ ( /\ last'.called
        /\ last'.op \in {"callTool", "getPrompt", "readResource"}
        /\ ~IsConnected(last'.arg.serverId) )
      => ( /\ last'.done
           /\ last'.outcome = "threw"
           /\ last'.ret = Some([isError |-> TRUE,
                message |-> "Server " \o last'.arg.serverId \o " is not connected"])
           /\ UNCHANGED <<clients, ops, handles, nextClient, now>> ) ]_vars

\* C2 witness: an invocation was rejected for a tracked id whose record is
\* disconnected and still carries the handle it was connected with.
C2_Witness ==
  /\ last.called /\ last.op \in {"callTool", "getPrompt", "readResource"}
  /\ last.outcome = "threw"
  /\ clients[last.arg.serverId] # None
  /\ clients[last.arg.serverId][1].status.status = "disconnected"
  /\ clients[last.arg.serverId][1].client # 0

\* C3: connect(config) called while the record of config.id is "connected"
\* returns the stored status (same lastConnected) and changes nothing: no
\* Client or transport is constructed, no handshake is made, the record is kept.
C3_ConnectIdempotent ==
  [][ ( /\ last'.called /\ last'.op = "connect"
        /\ IsConnected(last'.arg.id) )
      => ( /\ last'.done
           /\ last'.outcome = "returned"
           /\ last'.ret = Some(clients[last'.arg.id][1].status)
           /\ UNCHANGED <<clients, ops, handles, nextClient, now>> ) ]_vars

\* C3 witness: connect returned at once for a connected id although the
\* supplied configuration differs from the stored one and time has moved on.
C3_Witness ==
  /\ last.called /\ last.op = "connect" /\ last.done
  /\ IsConnected(last.arg.id)
  /\ clients[last.arg.id][1].config # last.arg
  /\ last.ret[1].lastConnected[1] < now

\* C4: connect() never throws; when transport construction or the handshake
\* fails it makes no further call on the client, stores for config.id a record
\* with status "error", the caught error's message ("Unknown error" when the
\* caught value is not an Error), a null client and a null capability
\* snapshot, and returns that status.
C4_ConnectFailureStored ==
  [][ /\ (last'.op = "connect" /\ last'.done) => last'.outcome = "returned"
      /\ ( /\ last'.op = "connect" /\ ~last'.called
           /\ last'.env.kind \in {"transport", "handshake"}
           /\ ~last'.env.ok )
         => ( /\ last'.done
              /\ last'.ret = Some([serverId |-> last'.arg.id, status |-> "error",
                   error |-> Some(IF last'.env.error.isError
                                    THEN last'.env.error.message
                                    ELSE "Unknown error"),
                   lastConnected |-> None])
              /\ clients'[last'.arg.id] =
                   Some([client |-> 0, config |-> last'.arg,
                         status |-> last'.ret[1], capabilities |-> None])
              /\ handles' = handles ) ]_vars

\* C4 witness: a connect whose handshake was rejected has returned, and the
\* record of its id is the failed one.
C4_Witness ==
  /\ last.op = "connect" /\ last.done
  /\ last.env.kind = "handshake" /\ ~last.env.ok
  /\ last.outcome = "returned"
  /\ clients[last.arg.id][1].status.status = "error"
  /\ clients[last.arg.id][1].client = 0

\* a configuration without the field its transport kind requires
LacksRequiredField(config) ==
  \/ /\ config.transportType = "stdio"
     /\ (config.stdioConfig = None \/ config.stdioConfig[1].command = None)
  \/ /\ config.transportType \in {"streamable-http", "sse"}
     /\ (config.httpConfig = None \/ config.httpConfig[1].url = None)

\* C5: connect() on a configuration that lacks the field its transport kind
\* requires never calls client.connect() and ends with status "error" and a
\* non-empty message.
C5_MissingFieldNoHandshake ==
  /\ \A op \in InFlight :
       (op.kind = "connect" /\ LacksRequiredField(op.config))
         => handles[op.client].connectCalls = 0
  /\ ( /\ last.op = "connect" /\ last.done /\ ~last.called
       /\ LacksRequiredField(last.arg) )
     => ( /\ last.ret[1].status = "error"
          /\ last.ret[1].error # None
          /\ last.ret[1].error[1] # "" )

SameTools(snapshot, remote) ==
  /\ Len(snapshot) = Len(remote)
  /\ \A i \in 1..Len(remote) :
       /\ snapshot[i].name = remote[i].name
       /\ snapshot[i].description = remote[i].description
       /\ snapshot[i].inputSchema = remote[i].inputSchema

SamePrompts(snapshot, remote) ==
  /\ Len(snapshot) = Len(remote)
  /\ \A i \in 1..Len(remote) :
       /\ snapshot[i].name = remote[i].name
       /\ snapshot[i].description = remote[i].description
       /\ snapshot[i].arguments = remote[i].arguments

SameResources(snapshot, remote) ==
  /\ Len(snapshot) = Len(remote)
  /\ \A i \in 1..Len(remote) :
       /\ snapshot[i].uri = remote[i].uri
       /\ snapshot[i].name = remote[i].name
       /\ snapshot[i].description = remote[i].description
       /\ snapshot[i].mimeType = remote[i].mimeType

\* C6: when the handshake succeeded, whatever subset of the three capability
\* queries fails, connect() stores and returns status "connected" without an
\* error; the snapshot has an empty list for each failed category and, for
\* each other category, one entry per remote entry, in the remote's order.
C6_PartialCapabilities ==
  (last.op = "connect" /\ last.env.kind = "capabilities") =>
    LET settled == last.env.value[1]
        id == last.arg.id IN
    /\ last.done /\ last.outcome = "returned"
    /\ last.ret[1].status = "connected" /\ last.ret[1].error = None
    /\ clients[id] # None
    /\ clients[id][1].status = last.ret[1]
    /\ clients[id][1].capabilities # None
    /\ LET snapshot == clients[id][1].capabilities[1] IN
       /\ IF settled.tools.status = "rejected"
            THEN snapshot.tools = <<>>
            ELSE SameTools(snapshot.tools, settled.tools.value)
       /\ IF settled.prompts.status = "rejected"
            THEN snapshot.prompts = <<>>
            ELSE SamePrompts(snapshot.prompts, settled.prompts.value)
       /\ IF settled.resources.status = "rejected"
            THEN snapshot.resources = <<>>
            ELSE SameResources(snapshot.resources, settled.resources.value)

\* C6 witness: a connect completed as "connected" although exactly the tools
\* query failed, the other two having returned non-empty lists.
C6_Witness ==
  /\ last.op = "connect" /\ last.env.kind = "capabilities"
  /\ last.env.value[1].tools.status = "rejected"
  /\ last.env.value[1].prompts.status = "fulfilled"
  /\ last.env.value[1].prompts.value # <<>>
  /\ last.env.value[1].resources.status = "fulfilled"
  /\ last.env.value[1].resources.value # <<>>
  /\ last.ret[1].status = "connected"
  /\ clients[last.arg.id][1].capabilities[1].tools = <<>>
  /\ clients[last.arg.id][1].capabilities[1].prompts # <<>>

\* C7: in every reachable state getCapabilities(id) is non-null exactly when
\* the record of id has status "connected".
C7_SnapshotIffConnected ==
  \A id \in ServerIds : (getCapabilities(id) # None) <=> IsConnected(id)

\* C7 witness: one id is tracked and disconnected after having been connected
\* (no snapshot), another is connected (snapshot present).
C7_Witness ==
  \E id, other \in ServerIds :
    /\ clients[id] # None
    /\ clients[id][1].status.status = "disconnected"
    /\ clients[id][1].client # 0
    /\ getCapabilities(id) = None
    /\ IsConnected(other) /\ getCapabilities(other) # None

\* C8: a disconnect(id) that completes returns, also when close() failed,
\* the status "disconnected" without error; if the id is tracked its record
\* then has that status and no capability snapshot.
C8_DisconnectNeverFails ==
  (last.op = "disconnect" /\ last.done) =>
    /\ last.outcome = "returned"
    /\ last.ret = Some([serverId |-> last.arg, status |-> "disconnected",
                        error |-> None, lastConnected |-> None])
    /\ clients[last.arg] # None =>
         /\ clients[last.arg][1].status = last.ret[1]
         /\ clients[last.arg][1].capabilities = None

\* C8 witness: a disconnect whose close() failed has returned.
C8_Witness ==
  /\ last.op = "disconnect" /\ last.done
  /\ last.env.kind = "close" /\ ~last.env.ok
  /\ last.outcome = "returned"
  /\ clients[last.arg] # None
  /\ clients[last.arg][1].status.status = "disconnected"

\* C9: after disconnect(id) completes on a record that was connected, the
\* client handle of the record is null.
C9_HandleDroppedOnDisconnect ==
  (last.op = "disconnect" /\ last.done /\ last.env.kind = "close") =>
    clients[last.arg][1].client = 0

\* C10: disconnect(id) for an id without record returns
\* {serverId: id, status: "disconnected"} and changes nothing: no record is
\* created, no other record changes, no client is called.
C10_DisconnectUnknownNoEffect ==
  [][ ( /\ last'.called /\ last'.op = "disconnect"
        /\ clients[last'.arg] = None )
      => ( /\ last'.done
           /\ last'.outcome = "returned"
           /\ last'.ret = Some([serverId |-> last'.arg, status |-> "disconnected",
                                error |-> None, lastConnected |-> None])
           /\ UNCHANGED <<clients, ops, handles, nextClient, now>> ) ]_vars

\* C10 witness: disconnect returned for an untracked id while another id is
\* connected.
C10_Witness ==
  /\ last.called /\ last.op = "disconnect" /\ last.done
  /\ clients[last.arg] = None
  /\ \E other \in ServerIds : IsConnected(other)

\* C11: disconnect is idempotent: a disconnect(id) called when an earlier one
\* has completed (the record is "disconnected") returns the same status,
\* leaves the record as it was and does not call close() again.
C11_DisconnectIdempotent ==
  [][ ( /\ last'.called /\ last'.op = "disconnect"
        /\ clients[last'.arg] # None
        /\ clients[last'.arg][1].status.status = "disconnected" )
      => ( /\ last'.done
           /\ last'.outcome = "returned"
           /\ last'.ret = Some(clients[last'.arg][1].status)
           /\ UNCHANGED <<clients, ops, handles, nextClient, now>> ) ]_vars

\* C11 witness: a second disconnect returned for a record that a completed
\* disconnect left behind; close() was called once on its handle.
C11_Witness ==
  /\ last.called /\ last.op = "disconnect" /\ last.done
  /\ clients[last.arg] # None
  /\ clients[last.arg][1].status.status = "disconnected"
  /\ clients[last.arg][1].client # 0
  /\ handles[clients[last.arg][1].client].closeCalls = 1

\* an id that no connect() call was ever given: no Client was constructed for it
NeverPassedToConnect(id) ==
  \A h \in DOMAIN handles : handles[h].name # "mcp-client-" \o id

\* C12: for an id never passed to connect(), getStatus(id) is "disconnected"
\* with no error and no lastConnected, in every reachable state and in every
\* value a getStatus call returned.
C12_NeverConnectedDisconnected ==
  /\ \A id \in ServerIds :
       NeverPassedToConnect(id) =>
         getStatus(id) = [serverId |-> id, status |-> "disconnected",
                          error |-> None, lastConnected |-> None]
  /\ (last.called /\ last.op = "getStatus" /\ NeverPassedToConnect(last.arg))
       => last.ret = Some([serverId |-> last.arg, status |-> "disconnected",
                           error |-> None, lastConnected |-> None])

\* C12 witness: getStatus returned for an id never connected while the other
\* id has been connected
C12_Witness ==
  /\ last.called /\ last.op = "getStatus"
  /\ NeverPassedToConnect(last.arg)
  /\ \E id \in ServerIds \ {last.arg} :
       clients[id] # None /\ clients[id][1].status.status = "connected"

\* C13: the three lookups are read-only: a call returns at once and leaves the
\* registry, the operations in flight and every client handle untouched.
C13_LookupsReadOnly ==
  [][ ( last'.called
        /\ last'.op \in {"getStatus", "getAllStatuses", "getCapabilities"} )
      => ( /\ last'.done /\ last'.outcome = "returned"
           /\ UNCHANGED <<clients, ops, handles, nextClient, now>> ) ]_vars

\* C13 witness: getStatus returned for an untracked id, which is still
\* untracked, while another id is tracked
C13_Witness ==
  /\ last.called /\ last.op = "getStatus" /\ last.done
  /\ clients[last.arg] = None
  /\ \E id \in ServerIds : clients[id] # None

\* a handshake for the id has succeeded on some Client: its capability
\* queries were issued
EverConnected(id) ==
  \E h \in DOMAIN handles :
    handles[h].name = "mcp-client-" \o id /\ handles[h].listCalls > 0

ConnectInFlight(id) ==
  \E op \in InFlight : op.kind = "connect" /\ op.config.id = id

\* C15 as stated: every id with a record has connected successfully at least
\* once or has a connect in flight.
C15_RecordOnlyIfConnected ==
  \A id \in ServerIds :
    clients[id] # None => (EverConnected(id) \/ ConnectInFlight(id))

\* C15 amended: every id with a record has been passed to connect(); an id
\* whose connect attempts have all completed and all failed has a record, and
\* getAllStatuses() enumerates its status.
C15_RecordOnlyIfAttempted ==
  /\ \A id \in ServerIds : clients[id] # None => ~NeverPassedToConnect(id)
  /\ \A id \in ServerIds :
       (~NeverPassedToConnect(id) /\ ~EverConnected(id) /\ ~ConnectInFlight(id))
         => ( /\ clients[id] # None
              /\ clients[id][1].status.status \in {"error", "disconnected"}
              /\ clients[id][1].status.serverId = id
              /\ clients[id][1].status \in getAllStatuses )

\* C15 witness: an id whose only connect attempt failed is tracked with status
\* "error" and nothing is in flight
C15_Witness ==
  \E id \in ServerIds :
    /\ ~NeverPassedToConnect(id) /\ ~EverConnected(id) /\ ~ConnectInFlight(id)
    /\ clients[id] # None /\ clients[id][1].status.status = "error"
    /\ ops = EmptyBag

\* C16: whenever an in-flight connect() completes, whatever record the id had
\* (also one written meanwhile by an overlapping connect for the same id), the
\* record becomes the one this call wrote: its own handle, the status it
\* returns, its configuration and its capability snapshot.
C16_LastWriterWins ==
  [][ \A op \in InFlight :
        ( /\ op.kind = "connect" /\ ops' = Finished(op)
          /\ last'.op = "connect" /\ last'.done /\ ~last'.called )
        => LET id == op.config.id
               status == last'.ret[1] IN
           /\ last'.outcome = "returned"
           /\ clients'[id] # None
           /\ clients'[id][1].status = status
           /\ clients'[id][1].config = op.config
           /\ IF status.status = "connected"
                THEN /\ clients'[id][1].client = op.client
                     /\ clients'[id][1].capabilities # None
                     /\ LET snapshot == clients'[id][1].capabilities[1]
                            settled == last'.env.value[1] IN
                        /\ settled.tools.status = "fulfilled"
                             => SameTools(snapshot.tools, settled.tools.value)
                        /\ settled.tools.status = "rejected"
                             => snapshot.tools = <<>>
                ELSE /\ clients'[id][1].client = 0
                     /\ clients'[id][1].capabilities = None ]_vars

\* C16 witness: two connects for one id both performed the handshake and the
\* capability queries; the one constructed first completed last, over the
\* record the other had written, and the record holds its handle.
C16_Witness ==
  /\ last.op = "connect" /\ last.done /\ ~last.called
  /\ last.ret[1].status = "connected"
  /\ ops = EmptyBag
  /\ \E h1, h2 \in DOMAIN handles :
       /\ h1 < h2
       /\ handles[h1].name = handles[h2].name
       /\ handles[h1].name = "mcp-client-" \o last.arg.id
       /\ handles[h1].connectCalls = 1 /\ handles[h2].connectCalls = 1
       /\ handles[h1].listCalls = 3 /\ handles[h2].listCalls = 3
       /\ handles[h1].closeCalls = 0 /\ handles[h2].closeCalls = 0
       /\ clients[last.arg.id][1].client = h1

TrackedIds == { id \in ServerIds : clients[id] # None }

\* C17: an id that has a record has one in every later state: no step removes
\* a key, the set of tracked ids only grows.
C17_RecordsNeverRemoved ==
  [][ /\ \A id \in ServerIds : clients[id] # None => clients'[id] # None
      /\ TrackedIds \subseteq TrackedIds' ]_vars

\* C17 witness: every id is tracked after a disconnectAll has resolved, one
\* record left by a failed connect and one by a disconnect
C17_Witness ==
  /\ last.op = "disconnectAll" /\ last.done
  /\ TrackedIds = ServerIds
  /\ \E id \in ServerIds : clients[id][1].client = 0
  /\ \E id \in ServerIds : clients[id][1].client # 0
                           /\ handles[clients[id][1].client].closeCalls = 1

\* the parameters a verbatim forward of the request hands to the client;
\* callTool sends an empty object when no arguments are given
ForwardOf(method, request) ==
  CASE method = "callTool" ->
         [name |-> request.name,
          arguments |-> IF request.args = None THEN Some("{}") ELSE request.args]
    [] method = "getPrompt" ->
         [name |-> request.name, arguments |-> request.args]
    [] OTHER -> [uri |-> request.uri]

\* C18: on a connected record, callTool / getPrompt / readResource starts
\* exactly one call, on the record's client handle, with the given name and
\* arguments or uri; when that call fails the caller receives the same failure
\* and the registry and the handles are left exactly as they were.
C18_ForwardedVerbatim ==
  [][ /\ ( /\ last'.called
           /\ last'.op \in {"callTool", "getPrompt", "readResource"}
           /\ IsConnected(last'.arg.serverId) )
         => ( /\ ~last'.done
              /\ \E op \in BagToSet(ops') :
                   /\ ops' = ops (+) SetToBag({op})
                   /\ op.kind = last'.op
                   /\ op.client = clients[last'.arg.serverId][1].client
                   /\ op.forwarded = ForwardOf(last'.op, last'.arg)
              /\ UNCHANGED <<clients, handles, nextClient, now>> )
      /\ ( /\ ~last'.called /\ last'.done
           /\ last'.op \in {"callTool", "getPrompt", "readResource"}
           /\ ~last'.env.ok )
         => ( /\ last'.outcome = "threw"
              /\ last'.ret = Some(last'.env.error)
              /\ BagCardinality(ops') = BagCardinality(ops) - 1
              /\ UNCHANGED <<clients, handles, nextClient, now>> ) ]_vars

\* C18 witness: a forwarded call failed and the caller got its error while the
\* record is still connected with its capability snapshot
C18_Witness ==
  /\ ~last.called /\ last.done
  /\ last.op \in {"callTool", "getPrompt", "readResource"}
  /\ ~last.env.ok /\ last.outcome = "threw"
  /\ last.ret = Some([isError |-> TRUE, message |-> "request timed out"])
  /\ clients[last.arg.serverId] # None
  /\ clients[last.arg.serverId][1].status.status = "connected"
  /\ clients[last.arg.serverId][1].capabilities # None

KnownTransportTypes == {"stdio", "streamable-http", "sse"}

\* C19 as stated: every connect() on a configuration of unrecognised transport
\* kind yields status "error" with a message naming the kind.
C19_UnknownKindFails ==
  (last.op = "connect" /\ last.done
   /\ last.arg.transportType \notin KnownTransportTypes)
    => ( /\ last.ret[1].status = "error"
         /\ last.ret[1].error =
              Some("Unsupported transport type: " \o last.arg.transportType) )

\* C19 amended: connect() on a configuration of unrecognised transport kind,
\* called while the record of its id is not "connected", makes no handshake
\* and no capability query and returns status "error" with the message
\* "Unsupported transport type: <kind>"; that status is stored.
C19_UnknownKindFailsUnlessConnected ==
  [][ ( /\ last'.op = "connect"
        /\ last'.arg.transportType \notin KnownTransportTypes
        /\ ~(last'.called /\ IsConnected(last'.arg.id)) )
      => ( /\ \A h \in DOMAIN handles :
                /\ handles'[h].connectCalls = handles[h].connectCalls
                /\ handles'[h].listCalls = handles[h].listCalls
           /\ last'.called => ~last'.done
           /\ ~last'.called =>
                /\ last'.done /\ last'.outcome = "returned"
                /\ last'.ret[1].status = "error"
                /\ last'.ret[1].error =
                     Some("Unsupported transport type: " \o last'.arg.transportType)
                /\ clients'[last'.arg.id] # None
                /\ clients'[last'.arg.id][1].status = last'.ret[1]
                /\ clients'[last'.arg.id][1].client = 0 ) ]_vars

\* C19 witness: a connect with kind "websocket" completed as failed, naming the
\* kind, and the Client constructed for it was never asked to connect
C19_Witness ==
  /\ last.op = "connect" /\ last.done /\ ~last.called
  /\ last.arg.transportType = "websocket"
  /\ last.ret[1].error = Some("Unsupported transport type: websocket")
  /\ clients[last.arg.id][1].status.status = "error"
  /\ handles[nextClient - 1].name = "mcp-client-" \o last.arg.id
  /\ handles[nextClient - 1].connectCalls = 0

\* every tracked id is reported "disconnected" and has no capability snapshot
AllDisconnected(registry) ==
  \A id \in ServerIds :
    registry[id] # None =>
      /\ registry[id][1].status.status = "disconnected"
      /\ registry[id][1].status.error = None
      /\ registry[id][1].capabilities = None

\* a step on which the disconnectAll call `op` resolves
Resolves(op) ==
  /\ op.kind = "disconnectAll" /\ ops' = Finished(op)
  /\ last'.op = "disconnectAll" /\ last'.done /\ ~last'.called

\* C14 as stated: disconnectAll never rejects, and a disconnectAll called with
\* no connect in flight, after successful connections, resolves in a state in
\* which every tracked id is "disconnected" with no capability snapshot.
C14_AllDisconnectedOnResolve ==
  [][ /\ (last'.op = "disconnectAll" /\ last'.done) => last'.outcome = "returned"
      /\ ( /\ last'.op = "disconnectAll" /\ last'.called /\ last'.done
           /\ \A id \in ServerIds : ~ConnectInFlight(id) )
         => AllDisconnected(clients')
      /\ \A op \in InFlight :
           (Resolves(op) /\ op.connectsAtCall = {})
             => AllDisconnected(clients') ]_vars

\* C14 amended: disconnectAll never rejects, and a disconnectAll called with no
\* connect in flight, during which no connect() constructs a Client, resolves
\* in a state in which every tracked id is "disconnected" with no capability
\* snapshot.
C14_AllDisconnectedUnlessConnectOverlaps ==
  [][ /\ (last'.op = "disconnectAll" /\ last'.done) => last'.outcome = "returned"
      /\ ( /\ last'.op = "disconnectAll" /\ last'.called /\ last'.done
           /\ \A id \in ServerIds : ~ConnectInFlight(id) )
         => AllDisconnected(clients')
      /\ \A op \in InFlight :
           ( /\ Resolves(op) /\ op.connectsAtCall = {}
             /\ op.nextClientAtCall = nextClient )
             => AllDisconnected(clients') ]_vars

\* C14 witness: a disconnectAll called on two connected ids resolved after
\* both close() calls settled, one of them with an error; both records are
\* "disconnected" without snapshot
C14_Witness ==
  /\ last.op = "disconnectAll" /\ last.done /\ ~last.called
  /\ last.outcome = "returned"
  /\ nextClient = 3 /\ ops = EmptyBag
  /\ \A id \in ServerIds :
       /\ clients[id] # None
       /\ clients[id][1].status.status = "disconnected"
       /\ clients[id][1].capabilities = None
       /\ handles[clients[id][1].client].closeCalls = 1

\* `after` is `existing` followed by one new entry per entry of `data`, in
\* order: same exported fields, an identity generated by this import (none of
\* the identities generated before, none twice), createdAt and updatedAt `time`
MergedWith(after, existing, data, firstId, time) ==
  LET M == Len(existing)
      N == Len(data.servers) IN
  /\ Len(after) = M + N
  /\ \A i \in 1..M : after[i] = existing[i]
  /\ \A i \in 1..N :
       /\ \A k \in ExportKeys : after[M + i][k] = data.servers[i][k]
       /\ after[M + i].id >= firstId
       /\ \A j \in 1..(M + N) : j # M + i => after[j].id # after[M + i].id
       /\ after[M + i].createdAt = time
       /\ after[M + i].updatedAt = time

SameExported(entries, data) ==
  /\ Len(entries) = Len(data.servers)
  /\ \A i \in 1..Len(data.servers) :
       \A k \in ExportKeys : entries[i][k] = data.servers[i][k]

\* exported data: one entry per stored server, in order, the five fields of
\* the stored entry and no id, createdAt or updatedAt
ExportOf(data, stored) ==
  /\ SameExported(stored, data)
  /\ \A i \in 1..Len(data.servers) :
       DOMAIN data.servers[i] \cap {"id", "createdAt", "updatedAt"} = {}

C22_DistinctNamesMapBack ==
  gemini # None =>
    LET declarations == gemini[1].declarations
        toolMap == gemini[1].toolMap IN
    /\ Len(declarations) = Len(mcpTools)
    /\ \A i, j \in 1..Len(mcpTools) :
         i # j => declarations[i].name # declarations[j].name
    /\ Cardinality(DOMAIN toolMap) = Len(mcpTools)
    /\ \A i \in 1..Len(mcpTools) :
         /\ Len(declarations[i].name) <= SafeNameLength
         /\ declarations[i].name \in DOMAIN toolMap
         /\ toolMap[declarations[i].name] =
              [serverId |-> mcpTools[i].serverId,
               toolName |-> mcpTools[i].name]

\* a converted list with a two-digit index, a name whose characters were
\* replaced and two names that differ only behind the cut
C22_Witness ==
  /\ gemini # None
  /\ Len(mcpTools) > 10
  /\ \E i, j \in 1..Len(mcpTools) :
       LET kept == SafeNameLength - 5 - Len(Decimal(i - 1)) IN
       /\ i > 10 /\ j > 10 /\ i # j
       /\ Len(mcpTools[i].name) > kept
       /\ Len(mcpTools[j].name) > kept
       /\ mcpTools[i].name # mcpTools[j].name
       /\ SubSeq(mcpTools[i].name, 1, kept) = SubSeq(mcpTools[j].name, 1, kept)
       /\ Len(gemini[1].declarations[i].name) = SafeNameLength
       /\ \E k \in 1..kept :
            /\ mcpTools[i].name[k] \notin WordChars
            /\ gemini[1].declarations[i].name[k + Len(Decimal(i - 1)) + 5] = "_"

ResultsOf(id) ==
  { k \in 1..Len(chat.stream) :
      chat.stream[k].marker = "TOOL_RESULT" /\ chat.stream[k].id = id }
CallsOf(id) ==
  { k \in 1..Len(chat.stream) :
      chat.stream[k].marker = "TOOL_CALL" /\ chat.stream[k].id = id }

\* C23: every tool call the chat route starts has one [TOOL_CALL] event with
\* status "calling" and, once the stream is closed, exactly one later
\* [TOOL_RESULT] event of the same id with status "success" or "error"; no id
\* ever has two results, and its record is in the call list once.
C23_OneResultPerToolCall ==
  \A id \in 1..Len(chat.toolCallInfo) :
    /\ Cardinality(CallsOf(id)) = 1
    /\ \A k \in CallsOf(id) : chat.stream[k].status = "calling"
    /\ Cardinality(ResultsOf(id)) <= 1
    /\ \A r \in ResultsOf(id) :
         /\ chat.stream[r].status \in {"success", "error"}
         /\ \A k \in CallsOf(id) : k < r
    /\ chat.closed => Cardinality(ResultsOf(id)) = 1
    /\ Cardinality({ k \in 1..Len(chat.toolCalls) : chat.toolCalls[k] = id })
         <= 1

RegistryStatuses == {"disconnected", "connected", "error"}

C25_StatusWellFormed ==
  \A id \in ServerIds :
    clients[id] # None =>
      LET status == clients[id][1].status IN
      /\ status.serverId = id
      /\ (status.error # None) <=> (status.status = "error")
      /\ (status.lastConnected # None) <=> (status.status = "connected")

\* a disconnect has returned for an id that was connected: its record is
\* "disconnected" and carries no timestamp
C25_Witness ==
  \E id \in ServerIds :
    /\ EverConnected(id)
    /\ clients[id] # None
    /\ clients[id][1].status.status = "disconnected"
    /\ clients[id][1].status.lastConnected = None
    /\ last.op = "disconnect" /\ last.done

DisconnectClosing(id) ==
  \E op \in InFlight :
    \/ op.kind = "disconnect" /\ op.serverId = id
    \/ op.kind = "disconnectAll" /\ id \in op.pending

\* C26: no invocation is forwarded to a client handle after close() has been
\* requested on it: a callTool, getPrompt or readResource that starts while a
\* disconnect(id) waits for close() is rejected, and a connect(id) that starts
\* in that window does not return status "connected".
C26_NoForwardAfterClose ==
  [][/\ (last'.op \in Methods /\ last'.called /\ ~last'.done) =>
          handles[clients[last'.arg.serverId][1].client].closeCalls = 0
     /\ (last'.op \in Methods /\ last'.called
           /\ DisconnectClosing(last'.arg.serverId)) =>
          /\ last'.done /\ last'.outcome = "threw"
          /\ last'.ret = Some(NotConnectedError(last'.arg.serverId))
     /\ (last'.op = "connect" /\ last'.called
           /\ DisconnectClosing(last'.arg.id)) =>
          ~(last'.done /\ last'.outcome = "returned"
              /\ last'.ret[1].status = "connected")]_vars

\* C27: no live client handle is leaked: in every reachable state with no
\* operation in flight, every client that completed a handshake is the handle
\* held by the registry record of its id or has had close() called on it.
C27_NoHandleLeaked ==
  ops = EmptyBag =>
    \A h \in DOMAIN handles :
      handles[h].listCalls > 0 =>
        \/ handles[h].closeCalls > 0
        \/ \E id \in ServerIds :
             /\ handles[h].name = "mcp-client-" \o id
             /\ clients[id] # None
             /\ clients[id][1].client = h


\* the step in which disconnect(id) returns leaves id not connected
ReturnLeavesNotConnected ==
  \A id \in ServerIds :
    (/\ last'.op = "disconnect" /\ last'.done /\ last'.outcome = "returned"
     /\ last'.arg = id) =>
      ~IsConnected(id)'

\* a connect(id) resumed right after disconnect(id) returned was called before
\* that return; it does not make id connected
InFlightConnectStaysOut ==
  \A id \in ServerIds :
    (/\ last.op = "disconnect" /\ last.done /\ last.outcome = "returned"
     /\ last.arg = id
     /\ last'.op = "connect" /\ ~last'.called
     /\ last'.arg.id = id) =>
      ~IsConnected(id)'

\* a disconnect finishing after a newer "connected" record was stored keeps it
LateDisconnectKeepsNewer ==
  \A op \in InFlight :
    (/\ op.kind = "disconnect"
     /\ last'.op = "disconnect" /\ last'.done /\ ~last'.called
     /\ last'.arg = op.serverId
     /\ IsConnected(op.serverId)
     /\ clients[op.serverId][1].client # op.managedClient.client) =>
      clients'[op.serverId] = clients[op.serverId]

\* C28: after disconnect(id) has returned the id stays not-connected until a
\* connect(id) called after that return succeeds. Stated on single steps: the
\* step in which disconnect(id) returns leaves id not connected; a step that
\* follows the return and resumes a connect(id) called before it does not
\* make id "connected"; and a disconnect that finishes after a newer
\* "connected" record was stored leaves that record alone.
C28_StaysDisconnected ==
  [][/\ ReturnLeavesNotConnected
     /\ InFlightConnectStaysOut
     /\ LateDisconnectKeepsNewer]_vars

\* the snapshot holds exactly what the three queries of one connect returned
SnapshotOf(snapshot, settled) ==
  /\ IF settled.tools.status = "rejected" THEN snapshot.tools = <<>>
     ELSE SameTools(snapshot.tools, settled.tools.value)
  /\ IF settled.prompts.status = "rejected" THEN snapshot.prompts = <<>>
     ELSE SamePrompts(snapshot.prompts, settled.prompts.value)
  /\ IF settled.resources.status = "rejected" THEN snapshot.resources = <<>>
     ELSE SameResources(snapshot.resources, settled.resources.value)

ConnectStoredSnapshot(id) ==
  last.op = "connect" /\ last.env.kind = "capabilities" /\ last.arg.id = id

\* C30: after a (re)connection the capability snapshot of the id is exactly
\* the three lists fetched during that connect, whatever an earlier snapshot
\* held, and no other step changes a snapshot except to drop it whole.
C30_SnapshotWholesale ==
  [][\A id \in ServerIds :
       /\ ConnectStoredSnapshot(id)' =>
            /\ getCapabilities(id)' # None
            /\ SnapshotOf(getCapabilities(id)'[1], last'.env.value[1])
       /\ getCapabilities(id)' # getCapabilities(id) =>
            \/ getCapabilities(id)' = None
            \/ ConnectStoredSnapshot(id)']_vars

\* a reconnection after a disconnect has completed: an earlier client of the
\* id fetched its lists and was closed, and the snapshot now holds the one
\* tool this connect fetched and no prompt
C30_Witness ==
  \E id \in ServerIds :
    /\ ConnectStoredSnapshot(id)
    /\ \E h \in DOMAIN handles :
         /\ handles[h].name = "mcp-client-" \o id
         /\ handles[h].listCalls > 0 /\ handles[h].closeCalls > 0
         /\ clients[id][1].client # h
    /\ last.env.value[1].prompts.status = "rejected"
    /\ Len(getCapabilities(id)[1].tools) = 1
    /\ getCapabilities(id)[1].prompts = <<>>

\* a connect request of the page for id has not settled yet
ConnectPending(id) ==
  \/ \E req \in BagToSet(ui.requests) :
       req.kind = "connect" /\ req.serverId = id /\ req.pc \in {"fetch", "json"}
  \/ ui.pc \in {"connect", "connectJson"} /\ Head(ui.queue).id = id

ConnectSettled(id) ==
  /\ last.op \in {"MCPProvider.connect", "autoConnectServers"}
  /\ last.outcome = "settled"
  /\ last.arg = id

\* C29: in the browser context a local status "connecting" is replaced by
\* "connected" or "error" in the step in which the connect request resolves
\* or rejects (success or failure response, network error, unparsable body),
\* for connect(serverId) and for the auto-connect on mount; and the status is
\* "connecting" only while such a request is still unsettled.
C29_ConnectingReplaced ==
  [][\A id \in ServerIds :
       /\ ConnectSettled(id)' =>
            /\ ui'.statuses[id] # None
            /\ ui'.statuses[id][1].status \in {"connected", "error"}
       /\ (ui'.statuses[id] # None
             /\ ui'.statuses[id][1].status = "connecting") =>
            ConnectPending(id)']_vars

\* connect(serverId) set "connecting", the response body could not be parsed
\* and the status is now "error"; the auto-connect of another server is still
\* waiting with status "connecting"
C29_Witness ==
  \E id, other \in ServerIds :
    /\ id # other
    /\ last.op = "MCPProvider.connect" /\ ConnectSettled(id)
    /\ ui.statuses[id] = Some(UiErrorStatus(id, "Unexpected token"))
    /\ ui.statuses[other] = Some(ConnectingStatus(other))
    /\ ui.pc = "connectJson"

====
